---- MODULE Spec2Model ----
(***************************************************************************)
(* Model of the retrieval core of the sloka search MCP server:             *)
(*   - misctools.rerank_sloka_candidates / main.rerank_slokas              *)
(*   - main.canonicalize_sloka_index over pgutils.list_all_scriptures      *)
(* Python str values are sequences of one-character strings, so that       *)
(* formatting, splitting, parsing and comparison are computed, not assumed.*)
(* A request is drawn in Init; the tool's handler runs as one action and   *)
(* leaves its result in ret.                                               *)
(***************************************************************************)
EXTENDS Integers, Sequences, FiniteSets, TLC

VARIABLES db, req, ret, pc

vars == <<db, req, ret, pc>>

(***************************************************************************)
(* Bounds of the explored inputs.                                          *)
(***************************************************************************)
\* longest candidate list one channel hands to the reranker
MaxListLen == 2
\* most candidates over the three channel lists together
MaxCandidates == 4
\* largest top_n passed to the reranker (the smallest is -1)
MaxTopN == 3
\* longest sloka_index text passed to canonicalize_sloka_index
MaxIndexLen == 4
\* largest number_before / number_after asked of a neighbor tool (the
\* smallest is -1)
MaxNeighborCount == 6

(***************************************************************************)
(* Python values.                                                          *)
(***************************************************************************)
\* Optional[str]: None, or a str
PyNone == [none |-> TRUE, str |-> <<>>]

PyStr(s) == [none |-> FALSE, str |-> s]

\* truthiness of an Optional[str]: None and "" are falsy
Truthy(v) == ~v.none /\ v.str # <<>>

\* str(v) as an f-string renders it: None prints as the text None
Format(v) == IF v.none THEN <<"N", "o", "n", "e">> ELSE v.str

Min(a, b) == IF a <= b THEN a ELSE b

Max(a, b) == IF a >= b THEN a ELSE b

\* seq[:n] of Python: a negative n counts from the end
PySliceTo(seq, n) ==
    IF n >= 0 THEN SubSeq(seq, 1, Min(n, Len(seq)))
    ELSE SubSeq(seq, 1, Max(Len(seq) + n, 0))

\* str.lower() on the letters the model uses
LowerChar(c) ==
    CASE c = "G" -> "g"
      [] c = "I" -> "i"
      [] c = "T" -> "t"
      [] c = "A" -> "a"
      [] c = "Y" -> "y"
      [] c = "S" -> "s"
      [] c = "R" -> "r"
      [] c = "N" -> "n"
      [] c = "O" -> "o"
      [] c = "U" -> "u"
      [] c = "M" -> "m"
      [] OTHER -> c

Lower(s) == [i \in 1..Len(s) |-> LowerChar(s[i])]

(***************************************************************************)
(* The store: dharma.sloka_meaning rows and whether queries succeed.       *)
(***************************************************************************)
\* pgutils.MAX_RESULTS_LIMIT
MAX_RESULTS_LIMIT == 50

\* rows of dharma.sloka_meaning
SlokaMeaningRows ==
    << [sloka_index |-> <<"a">>, scripture_name |-> <<"G">>,
        input_sloka |-> "sloka-a", english_meaning |-> "meaning-a"],
       [sloka_index |-> <<"a", "|", "b">>, scripture_name |-> <<"c">>,
        input_sloka |-> "sloka-ab", english_meaning |-> "meaning-ab"] >>

\* rows of dharma.scriptures: a name stored in mixed case, an entry whose
\* start index has a single underscore, an entry that only has
\* canonical_start, and an entry without a name
ScriptureRows ==
    << [scripture_name |-> PyStr(<<"G", "i", "t", "a">>),
        start_sloka_index |->
            PyStr(<<"K", "R", "I", "S", "H", "N", "A", "_", "B", "G", "_",
                    "0", "1", "_", "0", "1">>),
        canonical_start |-> PyNone],
       [scripture_name |-> PyStr(<<"y", "s">>),
        start_sloka_index |-> PyStr(<<"Y", "S", "_", "0", "1">>),
        canonical_start |-> PyNone],
       [scripture_name |-> PyStr(<<"r", "a">>),
        start_sloka_index |-> PyNone,
        canonical_start |->
            PyStr(<<"R", "A", "_", "0", "1", "_", "0", "0", "1", "_", "0", "1">>)],
       [scripture_name |-> PyNone,
        start_sloka_index |-> PyStr(<<"X", "_", "0", "1", "_", "0", "1">>),
        canonical_start |-> PyNone] >>

\* pgconnect.execute_query: raises when the store is unavailable
execute_query(rows) == IF db.up THEN [raised |-> FALSE, rows |-> rows]
                       ELSE [raised |-> TRUE, rows |-> <<>>]

\* a query on the commentary tables: these can fail on their own
execute_commentary_query(rows) ==
    IF db.up /\ db.bhashya_up THEN [raised |-> FALSE, rows |-> rows]
    ELSE [raised |-> TRUE, rows |-> <<>>]

\* rows of dharma.gita_bhashya: two commentaries on one verse, one on
\* another, and a row on the first verse that has no commentary index
GitaBhashyaRows ==
    << [gita_sloka_index |-> <<"K", "R", "I", "S", "H", "N", "A", "_", "B", "G",
                               "_", "0", "1", "_", "0", "1">>,
        scripture_name |-> <<"s", "b">>, sloka_index |-> <<"S", "B", "_", "1">>],
       [gita_sloka_index |-> <<"K", "R", "I", "S", "H", "N", "A", "_", "B", "G",
                               "_", "0", "1", "_", "0", "1">>,
        scripture_name |-> <<"r", "b">>, sloka_index |-> <<"R", "B", "_", "1">>],
       [gita_sloka_index |-> <<"a">>,
        scripture_name |-> <<"s", "b">>, sloka_index |-> <<"S", "B", "_", "a">>],
       [gita_sloka_index |-> <<"K", "R", "I", "S", "H", "N", "A", "_", "B", "G",
                               "_", "0", "1", "_", "0", "1">>,
        scripture_name |-> <<"m", "b">>, sloka_index |-> <<>>] >>

\* rows of dharma.yogasutras_bhashyas: one sutra with two rows, one with one
YogasutrasBhashyaRows ==
    << [sloka_index |-> <<"Y", "S", "_", "0", "1", "_", "0", "1">>,
        scripture_name |-> <<"v", "b">>,
        yogasutras_bhashya_sloka_index |-> <<"V", "B", "_", "1">>],
       [sloka_index |-> <<"Y", "S", "_", "0", "1", "_", "0", "1">>,
        scripture_name |-> <<"v", "b">>,
        yogasutras_bhashya_sloka_index |-> <<"V", "B", "_", "2">>],
       [sloka_index |-> <<"a">>,
        scripture_name |-> <<"v", "b">>,
        yogasutras_bhashya_sloka_index |-> <<"V", "B", "_", "a">>] >>

\* the name get_bhashya_references compares base with
GitaName == <<"g", "i", "t", "a">>

YogasutrasName == <<"y", "o", "g", "a", "s", "u", "t", "r", "a", "s">>

\* a lookup that treats every scripture as single-commentary
get_bhashya_references_one_each(sloka_index, scripture_name) ==
    IF ~Truthy(sloka_index) \/ ~Truthy(scripture_name)
    THEN [raised |-> FALSE, rows |-> <<>>, queried |-> {}]
    ELSE
    LET base == Lower(scripture_name.str)
        q == execute_commentary_query(
                 SelectSeq(db.gita_bhashya,
                           LAMBDA r : r.gita_sloka_index = sloka_index.str))
    IN  IF base = GitaName
        THEN [raised |-> FALSE, queried |-> {"gita_bhashya"},
              rows |-> IF q.raised THEN <<>>
                       ELSE [i \in 1..Min(Len(q.rows), 1) |->
                                [scripture_name |-> q.rows[i].scripture_name,
                                 sloka_index |-> q.rows[i].sloka_index]]]
        ELSE [raised |-> FALSE, rows |-> <<>>, queried |-> {}]

\* pgutils.get_bhashya_references: nothing for a missing index or name; for
\* gita every row of gita_bhashya on the base index that has a sloka_index;
\* for yogasutras the first row of yogasutras_bhashyas (LIMIT 1, fetch one);
\* nothing for any other scripture; a failed query is logged and gives [].
\* queried is the set of commentary tables the call sent a query to.
get_bhashya_references(sloka_index, scripture_name) ==
    IF ~Truthy(sloka_index) \/ ~Truthy(scripture_name)
    THEN [raised |-> FALSE, rows |-> <<>>, queried |-> {}]
    ELSE
    LET base == Lower(scripture_name.str)
        g == execute_commentary_query(
                 SelectSeq(db.gita_bhashya,
                           LAMBDA r : r.gita_sloka_index = sloka_index.str))
        y == execute_commentary_query(
                 PySliceTo(SelectSeq(db.yogasutras_bhashyas,
                               LAMBDA r : r.sloka_index = sloka_index.str), 1))
        kept == SelectSeq(g.rows, LAMBDA r : r.sloka_index # <<>>)
    IN  IF base = GitaName
        THEN [raised |-> FALSE, queried |-> {"gita_bhashya"},
              rows |-> IF g.raised THEN <<>>
                       ELSE [i \in 1..Len(kept) |->
                                [scripture_name |-> kept[i].scripture_name,
                                 sloka_index |-> kept[i].sloka_index]]]
        ELSE IF base = YogasutrasName
        THEN [raised |-> FALSE, queried |-> {"yogasutras_bhashyas"},
              rows |-> IF y.raised \/ y.rows = <<>>
                          \/ y.rows[1].yogasutras_bhashya_sloka_index = <<>>
                       THEN <<>>
                       ELSE << [scripture_name |-> y.rows[1].scripture_name,
                                sloka_index |->
                                    y.rows[1].yogasutras_bhashya_sloka_index] >>]
        ELSE [raised |-> FALSE, rows |-> <<>>, queried |-> {}]

\* a retrieval that loses its rows when a commentary lookup fails
get_sloka_meanings_lookup_raises(sloka_index, scripture_name) ==
    LET match(r) ==
            /\ (Truthy(sloka_index) => r.sloka_index = sloka_index.str)
            /\ (Truthy(scripture_name) =>
                    Lower(r.scripture_name) = Lower(scripture_name.str))
        q == execute_query(PySliceTo(SelectSeq(db.sloka_meaning, match),
                                     MAX_RESULTS_LIMIT))
        lookup_fails ==
            \E i \in 1..Len(q.rows) :
                /\ ~db.bhashya_up
                /\ get_bhashya_references(
                       PyStr(q.rows[i].sloka_index),
                       PyStr(q.rows[i].scripture_name)).queried # {}
    IN  IF q.raised \/ lookup_fails THEN [raised |-> FALSE, rows |-> <<>>]
        ELSE [raised |-> FALSE,
              rows |-> [i \in 1..Len(q.rows) |->
                          [sloka_index |-> q.rows[i].sloka_index,
                           scripture_name |-> q.rows[i].scripture_name,
                           input_sloka |-> q.rows[i].input_sloka,
                           english_meaning |-> q.rows[i].english_meaning,
                           bhashya_sloka_indexes |->
                               get_bhashya_references(
                                   PyStr(q.rows[i].sloka_index),
                                   PyStr(q.rows[i].scripture_name)).rows]]]

\* pgutils.get_sloka_meanings: filter by index and LOWER(scripture_name),
\* LIMIT 50, attach each row's commentary references; a failed query is
\* logged and gives []
get_sloka_meanings(sloka_index, scripture_name) ==
    LET match(r) ==
            /\ (Truthy(sloka_index) => r.sloka_index = sloka_index.str)
            /\ (Truthy(scripture_name) =>
                    Lower(r.scripture_name) = Lower(scripture_name.str))
        q == execute_query(PySliceTo(SelectSeq(db.sloka_meaning, match),
                                     MAX_RESULTS_LIMIT))
    IN  IF q.raised THEN [raised |-> FALSE, rows |-> <<>>]
        ELSE [raised |-> FALSE,
              rows |-> [i \in 1..Len(q.rows) |->
                          [sloka_index |-> q.rows[i].sloka_index,
                           scripture_name |-> q.rows[i].scripture_name,
                           input_sloka |-> q.rows[i].input_sloka,
                           english_meaning |-> q.rows[i].english_meaning,
                           bhashya_sloka_indexes |->
                               get_bhashya_references(
                                   PyStr(q.rows[i].sloka_index),
                                   PyStr(q.rows[i].scripture_name)).rows]]]

(***************************************************************************)
(* misctools.rerank_sloka_candidates                                       *)
(***************************************************************************)
\* the merge key the code builds: f"{si}|{sc}"
MergeKey(si, sc) == Format(si) \o <<"|">> \o Format(sc)

\* position of key in the insertion-ordered dicts, 0 when absent
KeyIndex(acc, key) ==
    LET hits == {i \in 1..Len(acc) : acc[i].key = key}
    IN  IF hits = {} THEN 0 ELSE CHOOSE i \in hits : TRUE

\* one iteration of ingest's loop: skip an item without sloka_index, open
\* the key's entries on first sight, then count it and record the label
ingest_item(acc, it, label) ==
    LET si == it.sloka_index
        sc == it.scripture_name
        key == MergeKey(si, sc)
        at == KeyIndex(acc, key)
    IN  IF ~Truthy(si) THEN acc
        ELSE IF at = 0
        THEN Append(acc, [key |-> key, frequency |-> 1, sources |-> <<label>>,
                          sloka_index |-> si, scripture_name |-> sc])
        ELSE [acc EXCEPT ![at] = [@ EXCEPT !.frequency = @ + 1,
                                            !.sources = Append(@, label)]]

RECURSIVE ingest(_, _, _)
ingest(acc, items, label) ==
    IF items = <<>> THEN acc
    ELSE ingest(ingest_item(acc, Head(items), label), Tail(items), label)

\* the score the code gives an entry
CompositeScore(freq) == freq * 10

\* the merged list, in the dicts' insertion order
MergedEntries(acc) ==
    [i \in 1..Len(acc) |->
        [sloka_index |-> acc[i].sloka_index,
         scripture_name |-> acc[i].scripture_name,
         score |-> CompositeScore(acc[i].frequency),
         frequency |-> acc[i].frequency,
         contributing_agents |-> acc[i].sources,
         num_contributing_agents |-> Len(acc[i].sources),
         enriched |-> FALSE, input_sloka |-> "", english_meaning |-> ""]]

\* a sort that puts x before the entries of equal score (not stable)
SortSlotTiesFirst(sorted, x) ==
    Cardinality({i \in 1..Len(sorted) : sorted[i].score > x.score})

\* where list.sort(key=score, reverse=True) puts x among already sorted
\* entries: after every entry whose score is at least x's (the sort is stable)
SortSlot(sorted, x) ==
    Cardinality({i \in 1..Len(sorted) : sorted[i].score >= x.score})

RECURSIVE SortByScoreDesc(_, _)
SortByScoreDesc(sorted, rest) ==
    IF rest = <<>> THEN sorted
    ELSE LET x == Head(rest)
             p == SortSlot(sorted, x)
         IN  SortByScoreDesc(SubSeq(sorted, 1, p) \o <<x>>
                                \o SubSeq(sorted, p + 1, Len(sorted)),
                             Tail(rest))

\* merged[:top_n]
Trimmed(merged, top_n) == PySliceTo(merged, top_n)

\* the meaning_fetcher argument: absent, pgutils.get_sloka_meanings (as
\* main.rerank_slokas passes), or a callable that raises where the store has
\* no row
CallFetcher(fetcher, si, sc) ==
    LET got == get_sloka_meanings(si, sc)
    IN  IF fetcher = "raising" /\ got.rows = <<>>
        THEN [raised |-> TRUE, rows |-> <<>>]
        ELSE got

\* an enrichment step that updates the entry with the whole fetched row,
\* its sloka_index and scripture_name included
EnrichEntryOverwriting(fetcher, r) ==
    LET full == CallFetcher(fetcher, r.sloka_index, r.scripture_name)
    IN  IF full.raised THEN [raised |-> FALSE, entry |-> r]
        ELSE IF full.rows # <<>>
        THEN [raised |-> FALSE,
              entry |-> [r EXCEPT !.enriched = TRUE,
                                  !.sloka_index = PyStr(full.rows[1].sloka_index),
                                  !.scripture_name = PyStr(full.rows[1].scripture_name),
                                  !.input_sloka = full.rows[1].input_sloka,
                                  !.english_meaning = full.rows[1].english_meaning]]
        ELSE [raised |-> FALSE, entry |-> r]

\* an enrichment step without the try/except: the fetcher's exception escapes
EnrichEntryUncaught(fetcher, r) ==
    LET full == CallFetcher(fetcher, r.sloka_index, r.scripture_name)
    IN  IF full.raised THEN [raised |-> TRUE, entry |-> r]
        ELSE IF full.rows # <<>>
        THEN [raised |-> FALSE,
              entry |-> [r EXCEPT !.enriched = TRUE,
                                  !.input_sloka = full.rows[1].input_sloka,
                                  !.english_meaning = full.rows[1].english_meaning]]
        ELSE [raised |-> FALSE, entry |-> r]

\* the body of the enrichment loop for one entry: try the fetcher, update
\* the entry from the first row when there is one, swallow an exception
EnrichEntry(fetcher, r) ==
    LET full == CallFetcher(fetcher, r.sloka_index, r.scripture_name)
    IN  IF full.raised THEN [raised |-> FALSE, entry |-> r]
        ELSE IF full.rows # <<>>
        THEN [raised |-> FALSE,
              entry |-> [r EXCEPT !.enriched = TRUE,
                                  !.input_sloka = full.rows[1].input_sloka,
                                  !.english_meaning = full.rows[1].english_meaning]]
        ELSE [raised |-> FALSE, entry |-> r]

RECURSIVE EnrichLoop(_, _, _)
EnrichLoop(fetcher, enriched, rest) ==
    IF rest = <<>> THEN [raised |-> FALSE, value |-> enriched]
    ELSE LET e == EnrichEntry(fetcher, Head(rest))
         IN  IF e.raised THEN [raised |-> TRUE, value |-> <<>>]
             ELSE EnrichLoop(fetcher, Append(enriched, e.entry), Tail(rest))

rerank_sloka_candidates(en, sa, gl, top_n, fetcher) ==
    LET acc == ingest(ingest(ingest(<<>>, en, "english"), sa, "sanskrit"),
                      gl, "glossary")
        merged == SortByScoreDesc(<<>>, MergedEntries(acc))
        trimmed == Trimmed(merged, top_n)
    IN  IF fetcher # "none" THEN EnrichLoop(fetcher, <<>>, trimmed)
        ELSE [raised |-> FALSE, value |-> trimmed]

(***************************************************************************)
(* Rerank requests.                                                        *)
(***************************************************************************)
\* candidates the channel searches hand over, each with the raw similarity
\* (in percent) its channel gave it.  CandPipe and CandPipe2 are different
\* (sloka_index, scripture_name) pairs that print to the same f-string.
CandPipe ==
    [sloka_index |-> PyStr(<<"a", "|", "b">>), scripture_name |-> PyStr(<<"c">>),
     score |-> 20]

CandPipe2 ==
    [sloka_index |-> PyStr(<<"a">>), scripture_name |-> PyStr(<<"b", "|", "c">>),
     score |-> 90]

CandNoScripture ==
    [sloka_index |-> PyStr(<<"a">>), scripture_name |-> PyNone, score |-> 95]

CandPlain ==
    [sloka_index |-> PyStr(<<"b">>), scripture_name |-> PyStr(<<"c">>),
     score |-> 50]

CandNoIndex ==
    [sloka_index |-> PyNone, scripture_name |-> PyStr(<<"c">>), score |-> 70]

Fetchers == {"none", "get_sloka_meanings", "raising"}

NoRet == [raised |-> FALSE, value |-> <<>>]

Stores ==
    { [up |-> u, bhashya_up |-> u, sloka_meaning |-> SlokaMeaningRows,
       scriptures |-> ScriptureRows, gita_bhashya |-> GitaBhashyaRows,
       yogasutras_bhashyas |-> YogasutrasBhashyaRows,
       chapter_summaries |-> <<>>] : u \in BOOLEAN }

\* a rerank request: three lists over cands, each of at most MaxListLen
\* candidates and together at most cap, a top_n and a meaning fetcher
RerankRequest(r, cands, cap) ==
    \E a \in 0..MaxListLen, b \in 0..MaxListLen, c \in 0..MaxListLen :
        /\ a + b + c <= cap
        /\ \E en \in [1..a -> cands], sa \in [1..b -> cands],
              gl \in [1..c -> cands], n \in -1..MaxTopN, f \in Fetchers :
                r = [op |-> "rerank_slokas", en |-> en, sa |-> sa, gl |-> gl,
                     top_n |-> n, fetcher |-> f]

\* requests of at most MaxCandidates candidates over the three lists
InitRerank ==
    /\ RerankRequest(req, {CandPipe, CandPipe2, CandNoScripture, CandPlain},
                     MaxCandidates)
    /\ db \in {d \in Stores : ~d.up => req.fetcher = "get_sloka_meanings"}
    /\ ret = NoRet
    /\ pc = "call"

\* requests whose three lists are each as long as a channel allows
InitRerankWide ==
    /\ RerankRequest(req, {CandPipe, CandPipe2, CandNoScripture, CandNoIndex},
                     3 * MaxListLen)
    /\ db \in {d \in Stores : d.up}
    /\ ret = NoRet
    /\ pc = "call"

\* main.rerank_slokas
rerank_slokas ==
    /\ pc = "call"
    /\ req.op = "rerank_slokas"
    /\ ret' = rerank_sloka_candidates(req.en, req.sa, req.gl, req.top_n,
                                      req.fetcher)
    /\ pc' = "done"
    /\ UNCHANGED <<db, req>>

NextRerank == rerank_slokas

SpecRerank == InitRerank /\ [][NextRerank]_vars

SpecRerankWide == InitRerankWide /\ [][NextRerank]_vars

(***************************************************************************)
(* Python str operations used by canonicalize_sloka_index.                 *)
(***************************************************************************)
\* first position of character c in s, 0 when s has none
Find(s, c) ==
    LET hits == {i \in 1..Len(s) : s[i] = c}
    IN  IF hits = {} THEN 0 ELSE CHOOSE i \in hits : \A j \in hits : i <= j

\* s.count(c)
Count(s, c) == Cardinality({i \in 1..Len(s) : s[i] = c})

\* s.split(c, 1), for an s that holds c
SplitOnce(s, c) ==
    LET at == Find(s, c)
    IN  <<SubSeq(s, 1, at - 1), SubSeq(s, at + 1, Len(s))>>

\* s.split(c): the segments between every occurrence of c
RECURSIVE Split(_, _)
Split(s, c) ==
    IF Find(s, c) = 0 THEN <<s>>
    ELSE <<SubSeq(s, 1, Find(s, c) - 1)>>
             \o Split(SubSeq(s, Find(s, c) + 1, Len(s)), c)

\* c.join(parts)
RECURSIVE Join(_, _)
Join(parts, c) ==
    IF parts = <<>> THEN <<>>
    ELSE IF Len(parts) = 1 THEN parts[1]
    ELSE parts[1] \o <<c>> \o Join(Tail(parts), c)

\* s.strip()
RECURSIVE Strip(_)
Strip(s) ==
    IF s = <<>> THEN s
    ELSE IF Head(s) = " " THEN Strip(Tail(s))
    ELSE IF s[Len(s)] = " " THEN Strip(SubSeq(s, 1, Len(s) - 1))
    ELSE s

Digits == <<"0", "1", "2", "3", "4", "5", "6", "7", "8", "9">>

IsDigit(c) == \E d \in 1..10 : Digits[d] = c

DigitValue(c) == (CHOOSE d \in 1..10 : Digits[d] = c) - 1

RECURSIVE DecimalValue(_)
DecimalValue(ds) ==
    IF ds = <<>> THEN 0
    ELSE 10 * DecimalValue(SubSeq(ds, 1, Len(ds) - 1)) + DigitValue(ds[Len(ds)])

\* an int() that reads text without digits as 0 instead of raising
ParseIntLenient(s) ==
    LET t == Strip(s)
        signed == t # <<>> /\ Head(t) \in {"-", "+"}
        ds == IF signed THEN Tail(t) ELSE t
    IN  IF \E i \in 1..Len(ds) : ~IsDigit(ds[i])
        THEN [raised |-> TRUE, value |-> 0]
        ELSE [raised |-> FALSE,
              value |-> IF signed /\ Head(t) = "-" THEN 0 - DecimalValue(ds)
                        ELSE DecimalValue(ds)]

\* int(s) on text of spaces, signs and ASCII digits: surrounding whitespace
\* is ignored, one sign is allowed, at least one digit must follow; anything
\* else raises ValueError
ParseInt(s) ==
    LET t == Strip(s)
        signed == t # <<>> /\ Head(t) \in {"-", "+"}
        ds == IF signed THEN Tail(t) ELSE t
    IN  IF ds = <<>> \/ \E i \in 1..Len(ds) : ~IsDigit(ds[i])
        THEN [raised |-> TRUE, value |-> 0]
        ELSE [raised |-> FALSE,
              value |-> IF signed /\ Head(t) = "-" THEN 0 - DecimalValue(ds)
                        ELSE DecimalValue(ds)]

\* decimal digits of a natural number
RECURSIVE DecimalDigits(_)
DecimalDigits(n) ==
    IF n < 10 THEN <<Digits[n + 1]>>
    ELSE DecimalDigits(n \div 10) \o <<Digits[(n % 10) + 1]>>

\* zeros that bring text up to width characters
ZeroFill(text, width) == [i \in 1..Max(width - Len(text), 0) |-> "0"]

\* f"{n}": the number without padding
FormatUnpadded(n) ==
    IF n >= 0 THEN DecimalDigits(n) ELSE <<"-">> \o DecimalDigits(0 - n)

\* f"{n:02d}": the sign counts towards the width of two, and the zeros go
\* between the sign and the digits
Format02d(n) ==
    IF n >= 0 THEN ZeroFill(DecimalDigits(n), 2) \o DecimalDigits(n)
    ELSE <<"-">> \o ZeroFill(DecimalDigits(0 - n), 1) \o DecimalDigits(0 - n)

UpperCase ==
    <<"A", "B", "C", "D", "E", "F", "G", "H", "I", "J", "K", "L", "M",
      "N", "O", "P", "Q", "R", "S", "T", "U", "V", "W", "X", "Y", "Z">>

LowerCase ==
    <<"a", "b", "c", "d", "e", "f", "g", "h", "i", "j", "k", "l", "m",
      "n", "o", "p", "q", "r", "s", "t", "u", "v", "w", "x", "y", "z">>

\* code points of the characters index texts are made of
CodePoint(c) ==
    CASE c = " " -> 32
      [] c = "-" -> 45
      [] c = "." -> 46
      [] c = "_" -> 95
      [] c = "|" -> 124
      [] IsDigit(c) -> 48 + DigitValue(c)
      [] \E i \in 1..26 : UpperCase[i] = c ->
             64 + (CHOOSE i \in 1..26 : UpperCase[i] = c)
      [] OTHER -> 96 + (CHOOSE i \in 1..26 : LowerCase[i] = c)

\* a < b on text, as the store compares sloka_index values: at the first
\* position where they differ, a is exhausted or holds the smaller code point
StrLess(a, b) ==
    \E k \in 1..Len(b) :
        /\ \A i \in 1..(k - 1) : i <= Len(a) /\ a[i] = b[i]
        /\ \/ k = Len(a) + 1
           \/ k <= Len(a) /\ a[k] # b[k] /\ CodePoint(a[k]) < CodePoint(b[k])

\* v or w, on Optional[str]
Or(v, w) == IF Truthy(v) THEN v ELSE w

(***************************************************************************)
(* pgutils.list_all_scriptures and main.canonicalize_sloka_index           *)
(***************************************************************************)
\* SELECT * FROM dharma.scriptures LIMIT 50; a failed query gives []
list_all_scriptures ==
    LET q == execute_query(PySliceTo(db.scriptures, MAX_RESULTS_LIMIT))
    IN  IF q.raised THEN <<>> ELSE q.rows

Failure(msg) ==
    [raised |-> FALSE, success |-> FALSE, error |-> msg,
     has_canonical |-> FALSE, canonical_sloka_index |-> <<>>,
     scripture_name |-> <<>>]

\* a lookup that compares the names as they are spelled
MatchingScriptureExact(rows, scripture_name) ==
    LET hits == {i \in 1..Len(rows) :
                    Format(Or(rows[i].scripture_name, PyStr(<<>>)))
                        = scripture_name}
    IN  IF hits = {} THEN 0 ELSE CHOOSE i \in hits : \A j \in hits : i <= j

\* the first catalog row whose lower-cased name is the lower-cased argument;
\* 0 when none is
MatchingScripture(rows, scripture_name) ==
    LET hits == {i \in 1..Len(rows) :
                    Lower(Format(Or(rows[i].scripture_name, PyStr(<<>>))))
                        = Lower(scripture_name)}
    IN  IF hits = {} THEN 0 ELSE CHOOSE i \in hits : \A j \in hits : i <= j

\* a prefix that loses only the last segment
PrefixOfDropOne(start_idx) ==
    LET parts == Split(start_idx, "_")
    IN  Join(SubSeq(parts, 1, Len(parts) - 1), "_")

\* "_".join(start_idx.split("_")[:-2])
PrefixOf(start_idx) ==
    LET parts == Split(start_idx, "_")
    IN  Join(SubSeq(parts, 1, Len(parts) - 2), "_")

\* f"{prefix}_{ch_num:02d}_{sl_num:02d}"
CanonicalIndex(prefix, ch_num, sl_num) ==
    prefix \o <<"_">> \o Format02d(ch_num) \o <<"_">> \o Format02d(sl_num)

\* the try block around the two int() calls
ParseChapterSloka(chap_str, sloka_str) ==
    LET ch == ParseInt(chap_str)
        sl == ParseInt(sloka_str)
    IN  IF ch.raised \/ sl.raised THEN [raised |-> TRUE, ch |-> 0, sl |-> 0]
        ELSE [raised |-> FALSE, ch |-> ch.value, sl |-> sl.value]

canonicalize_sloka_index(scripture_name, sloka_index) ==
    IF scripture_name = <<>> \/ sloka_index = <<>> \/ Find(sloka_index, ".") = 0
    THEN Failure("Provide scripture_name and sloka_index like '2.47'")
    ELSE
    LET parts == SplitOnce(sloka_index, ".")
        nums == ParseChapterSloka(Strip(parts[1]), Strip(parts[2]))
        rows == list_all_scriptures
        at == MatchingScripture(rows, scripture_name)
        start_idx == Format(Or(rows[at].start_sloka_index,
                               Or(rows[at].canonical_start, PyStr(<<>>))))
    IN  IF nums.raised
        THEN Failure("sloka_index must be 'chapter.sloka' with integers")
        ELSE IF at = 0
        THEN Failure("scripture_name not found in list_scriptures")
        ELSE IF start_idx = <<>> \/ Count(start_idx, "_") < 2
        THEN Failure("Scripture metadata lacks canonical start index to infer prefix")
        ELSE [raised |-> FALSE, success |-> TRUE, error |-> "",
              has_canonical |-> TRUE,
              canonical_sloka_index |->
                  CanonicalIndex(PrefixOf(start_idx), nums.ch, nums.sl),
              scripture_name |-> scripture_name]

(***************************************************************************)
(* Canonicalize requests.                                                  *)
(***************************************************************************)
IndexAlphabet == {"0", "1", "9", ".", "-", " "}

NameInputs ==
    { <<"g", "i", "t", "a">>, <<"G", "I", "T", "A">>, <<"G", "i", "t", "a">>,
      <<"y", "s">>, <<"r", "a">>, <<"n", "o">>, <<>> }

InitCanon ==
    /\ \E k \in 0..MaxIndexLen :
          \E idx \in [1..k -> IndexAlphabet], name \in NameInputs :
              req = [op |-> "canonicalize_sloka_index",
                     scripture_name |-> name, sloka_index |-> idx]
    /\ db \in Stores
    /\ ret = Failure("")
    /\ pc = "call"

\* the canonicalize_sloka_index tool
canonicalize ==
    /\ pc = "call"
    /\ req.op = "canonicalize_sloka_index"
    /\ ret' = canonicalize_sloka_index(req.scripture_name, req.sloka_index)
    /\ pc' = "done"
    /\ UNCHANGED <<db, req>>

NextCanon == canonicalize

SpecCanon == InitCanon /\ [][NextCanon]_vars

(***************************************************************************)
(* The verse store of the context tools.                                   *)
(***************************************************************************)
KRISHNA_BG == <<"K", "R", "I", "S", "H", "N", "A", "_", "B", "G">>

RA_01 == <<"R", "A", "_", "0", "1">>

YS == <<"Y", "S">>

\* a canonical index as the store holds it, for numbers below 100
StoredIndex(prefix, c, v) ==
    prefix \o <<"_", Digits[(c \div 10) + 1], Digits[(c % 10) + 1],
                "_", Digits[(v \div 10) + 1], Digits[(v % 10) + 1]>>

\* a row of dharma.sloka_meaning
Verse(prefix, name, c, v) ==
    [sloka_index |-> StoredIndex(prefix, c, v), scripture_name |-> name,
     input_sloka |-> <<"sloka", prefix, c, v>>,
     english_meaning |-> <<"meaning", prefix, c, v>>]

\* (chapter, verse) of the gita rows, in the order the table holds them
GitaPairs ==
    << <<1, 10>>, <<0, 1>>, <<9, 9>>, <<1, 1>>, <<1, 9>>, <<0, 9>>, <<1, 11>>,
       <<9, 0>>, <<1, 19>>, <<1, 0>>, <<9, 1>>, <<9, 10>> >>

\* a corpus with more than five gita verses on each side of some verse, two
\* verses of a scripture stored under a mixed-case name, and one sutra
VerseRows ==
    [i \in 1..Len(GitaPairs) |->
        Verse(KRISHNA_BG, GitaName, GitaPairs[i][1], GitaPairs[i][2])]
    \o << Verse(RA_01, <<"R", "a">>, 1, 1), Verse(RA_01, <<"R", "a">>, 0, 1),
          Verse(YS, YogasutrasName, 1, 1) >>

\* a corpus with three gita verses and one of another scripture
FewVerseRows ==
    << Verse(KRISHNA_BG, GitaName, 1, 9), Verse(RA_01, <<"R", "a">>, 0, 1),
       Verse(KRISHNA_BG, GitaName, 1, 1), Verse(KRISHNA_BG, GitaName, 1, 10) >>

\* rows of the chapter summary views, each with the view it is in
ChapterSummaryRows ==
    << [view |-> "mv_ramayana_sarga_embeddings_enriched",
        start_sloka_index |-> StoredIndex(RA_01, 0, 1),
        end_sloka_index |-> StoredIndex(RA_01, 0, 99),
        short_summary |-> "sarga 0"],
       [view |-> "mv_ramayana_sarga_embeddings_enriched",
        start_sloka_index |-> StoredIndex(RA_01, 1, 1),
        end_sloka_index |-> StoredIndex(RA_01, 1, 99),
        short_summary |-> "sarga 1"],
       [view |-> "mv_bhagavatham_glossary",
        start_sloka_index |-> StoredIndex(RA_01, 0, 1),
        end_sloka_index |-> StoredIndex(RA_01, 9, 99),
        short_summary |-> "skandha"] >>

\* what the summarizer does when asked: it is unreachable, it answers with
\* nothing, or it answers with one of its texts
SummarizerOutcomes == {"down", "empty", "text A", "text B"}

\* the store and the summarizer a context tool runs against
VerseStores ==
    { [up |-> u, bhashya_up |-> b, sloka_meaning |-> rows,
       scriptures |-> ScriptureRows, gita_bhashya |-> GitaBhashyaRows,
       yogasutras_bhashyas |-> YogasutrasBhashyaRows,
       chapter_summaries |-> ChapterSummaryRows, summarizer |-> m] :
         u \in BOOLEAN, b \in BOOLEAN, rows \in {VerseRows, FewVerseRows},
         m \in SummarizerOutcomes }

(***************************************************************************)
(* pgutils.get_slokas_before_current_sloka / get_slokas_after_current_sloka*)
(***************************************************************************)
\* number_before and number_after when the caller gives none
DEFAULT_NUMBER_BEFORE == 5

DEFAULT_NUMBER_AFTER == 5

Reverse(seq) == [i \in 1..Len(seq) |-> seq[Len(seq) + 1 - i]]

\* where x goes among rows already in ascending order
IndexSlot(sorted, x) ==
    Cardinality({i \in 1..Len(sorted) :
                    ~StrLess(x.sloka_index, sorted[i].sloka_index)})

RECURSIVE SortByIndexAsc(_, _)
SortByIndexAsc(sorted, rest) ==
    IF rest = <<>> THEN sorted
    ELSE LET x == Head(rest)
             p == IndexSlot(sorted, x)
         IN  SortByIndexAsc(SubSeq(sorted, 1, p) \o <<x>>
                               \o SubSeq(sorted, p + 1, Len(sorted)),
                            Tail(rest))

\* ORDER BY sloka_index ASC
OrderByIndexAsc(rows) == SortByIndexAsc(<<>>, rows)

\* a query that ends in LIMIT n: a negative n is an error of the store
execute_query_limit(rows, n) ==
    IF ~db.up \/ n < 0 THEN [raised |-> TRUE, rows |-> <<>>]
    ELSE [raised |-> FALSE, rows |-> SubSeq(rows, 1, Min(n, Len(rows)))]

\* the filter both neighbor queries add when scripture_name is given
InScripture(r, scripture_name) ==
    Truthy(scripture_name) =>
        Lower(r.scripture_name) = Lower(scripture_name.str)

\* the lean row both functions build, for rows that have a sloka_index
LeanRows(rows) ==
    LET kept == SelectSeq(rows, LAMBDA r : r.sloka_index # <<>>)
    IN  [i \in 1..Len(kept) |->
            [sloka_index |-> kept[i].sloka_index,
             scripture_name |-> kept[i].scripture_name,
             input_sloka |-> kept[i].input_sloka,
             english_meaning |-> kept[i].english_meaning]]

\* WHERE sloka_index < %s [AND LOWER(scripture_name) = %s]
\* ORDER BY sloka_index DESC LIMIT %s; a failed query gives [].  A NULL
\* index compares with nothing.
get_slokas_before_current_sloka(current_sloka_index, scripture_name, number_before) ==
    LET hit(r) == /\ ~current_sloka_index.none
                  /\ StrLess(r.sloka_index, current_sloka_index.str)
                  /\ InScripture(r, scripture_name)
        q == execute_query_limit(
                 Reverse(OrderByIndexAsc(SelectSeq(db.sloka_meaning, hit))),
                 number_before)
    IN  [raised |-> FALSE, rows |-> IF q.raised THEN <<>> ELSE LeanRows(q.rows)]

\* WHERE sloka_index > %s [AND LOWER(scripture_name) = %s]
\* ORDER BY sloka_index ASC LIMIT %s; a failed query gives []
get_slokas_after_current_sloka(current_sloka_index, scripture_name, number_after) ==
    LET hit(r) == /\ ~current_sloka_index.none
                  /\ StrLess(current_sloka_index.str, r.sloka_index)
                  /\ InScripture(r, scripture_name)
        q == execute_query_limit(
                 OrderByIndexAsc(SelectSeq(db.sloka_meaning, hit)),
                 number_after)
    IN  [raised |-> FALSE, rows |-> IF q.raised THEN <<>> ELSE LeanRows(q.rows)]

\* pgutils.trace_immediate_context: the verses before in reading order, the
\* verse itself when get_sloka_meanings finds it, the verses after
trace_immediate_context(sloka_index, scripture_name) ==
    LET previous_slokas ==
            Reverse(get_slokas_before_current_sloka(
                        sloka_index, scripture_name, DEFAULT_NUMBER_BEFORE).rows)
        current_list == get_sloka_meanings(sloka_index, scripture_name).rows
        next_slokas ==
            get_slokas_after_current_sloka(
                sloka_index, scripture_name, DEFAULT_NUMBER_AFTER).rows
    IN  [raised |-> FALSE,
         rows |-> previous_slokas
                    \o (IF current_list # <<>> THEN <<current_list[1]>> ELSE <<>>)
                    \o next_slokas]

(***************************************************************************)
(* main.get_sloka_meaning, llmutils.generate_sloka_summary,                *)
(* main.immediate_surrounding_context, pgutils.trace_back_chapter_context, *)
(* main.get_chapter_context                                                *)
(***************************************************************************)
\* the get_sloka_meaning tool: a 'chapter.sloka' index with a scripture name
\* is canonicalized; when that fails the lookup goes on with the index as
\* given.  The tool returns the list get_sloka_meanings gives.
get_sloka_meaning(sloka_index, scripture_name) ==
    LET canon_res == canonicalize_sloka_index(scripture_name.str, sloka_index)
        lookup_index ==
            IF Truthy(scripture_name) /\ Find(sloka_index, ".") # 0
               /\ canon_res.success
            THEN canon_res.canonical_sloka_index
            ELSE sloka_index
    IN  [raised |-> FALSE, kind |-> "list",
         rows |-> get_sloka_meanings(PyStr(lookup_index), scripture_name).rows]

\* the text the except branch of generate_sloka_summary builds from the
\* first verse of the context
TemplatedSummary(main_sloka) ==
    [kind |-> "template", sloka_index |-> main_sloka.sloka_index,
     scripture_name |-> main_sloka.scripture_name,
     english_meaning |-> main_sloka.english_meaning]

\* the verse generate_sloka_summary names as the main sloka, in the request
\* to the summarizer and in the templated text: the first of the context
main_sloka(context) == context[1]

\* a summarizer call whose failure escapes
generate_sloka_summary_no_fallback(context) ==
    IF context = <<>>
    THEN [raised |-> FALSE,
          value |-> [kind |-> "fixed",
                     text |-> "No context provided for summary generation."]]
    ELSE IF db.summarizer \in {"down", "empty"}
    THEN [raised |-> TRUE, value |-> [kind |-> "none"]]
    ELSE [raised |-> FALSE, value |-> [kind |-> "llm", text |-> db.summarizer]]

\* llmutils.generate_sloka_summary: the model's answer, or the templated
\* text when the call fails or the answer is empty
generate_sloka_summary(context) ==
    IF context = <<>>
    THEN [raised |-> FALSE,
          value |-> [kind |-> "fixed",
                     text |-> "No context provided for summary generation."]]
    ELSE IF db.summarizer \in {"down", "empty"}
    THEN [raised |-> FALSE, value |-> TemplatedSummary(context[1])]
    ELSE [raised |-> FALSE, value |-> [kind |-> "llm", text |-> db.summarizer]]

\* the surrounding_context tool: it traces with the index as given
immediate_surrounding_context(sloka_index, scripture_name) ==
    LET t == trace_immediate_context(PyStr(sloka_index), scripture_name)
        slokas == IF t.raised THEN <<>> ELSE t.rows
        g == generate_sloka_summary(slokas)
    IN  IF slokas = <<>>
        THEN [raised |-> FALSE, sloka_index |-> sloka_index,
              scripture_name |-> scripture_name,
              surrounding_context |->
                  [kind |-> "fixed", text |-> "No contextual slokas found."],
              context_slokas_count |-> 0]
        ELSE [raised |-> FALSE, sloka_index |-> sloka_index,
              scripture_name |-> scripture_name,
              surrounding_context |->
                  IF g.raised
                  THEN [kind |-> "fixed",
                        text |-> "Context gathered but summary generation failed."]
                  ELSE g.value,
              context_slokas_count |-> Len(slokas)]

RamayanaName == <<"r", "a", "m", "a", "y", "a", "n", "a">>

MahabharataName == <<"m", "a", "h", "a", "b", "h", "a", "r", "a", "t", "a">>

BhagavathamName == <<"b", "h", "a", "g", "a", "v", "a", "t", "h", "a", "m">>

\* cursor.execute(query, params): the driver refuses params that do not fit
\* the query's placeholders
execute_query_params(placeholders, params, rows) ==
    IF ~db.up \/ Len(params) # placeholders
    THEN [raised |-> TRUE, rows |-> <<>>]
    ELSE [raised |-> FALSE, rows |-> rows]

\* %s BETWEEN start_sloka_index AND end_sloka_index
Between(x, lo, hi) == ~StrLess(x, lo) /\ ~StrLess(hi, x)

\* pgutils.trace_back_chapter_context: [] for a scripture without chapter
\* summaries; otherwise one query on the scripture's view, with one %s in
\* its text and the two params (scripture_name, sloka_index); a failed query
\* gives [].  scripture_name.lower() on None raises before the try.
trace_back_chapter_context(sloka_index, scripture_name) ==
    IF scripture_name.none THEN [raised |-> TRUE, rows |-> <<>>]
    ELSE
    LET base == Lower(scripture_name.str)
        view == CASE base = RamayanaName -> "mv_ramayana_sarga_embeddings_enriched"
                  [] base = MahabharataName -> "mv_mahabharata_sarga_embeddings_enriched"
                  [] OTHER -> "mv_bhagavatham_glossary"
        params == <<scripture_name.str, sloka_index>>
        q == execute_query_params(1, params,
                 SelectSeq(db.chapter_summaries,
                     LAMBDA r : r.view = view
                                /\ Between(params[1], r.start_sloka_index,
                                           r.end_sloka_index)))
    IN  IF base \notin {RamayanaName, MahabharataName, BhagavathamName}
        THEN [raised |-> FALSE, rows |-> <<>>]
        ELSE IF q.raised THEN [raised |-> FALSE, rows |-> <<>>]
        ELSE [raised |-> FALSE,
              rows |-> [i \in 1..Len(q.rows) |->
                           [short_summary |-> q.rows[i].short_summary]]]

\* the get_chapter_context tool: any exception gives []
get_chapter_context(sloka_index, scripture_name) ==
    LET t == trace_back_chapter_context(sloka_index, scripture_name)
    IN  IF t.raised THEN [raised |-> FALSE, rows |-> <<>>] ELSE t

(***************************************************************************)
(* Requests to the verse and context tools.                                *)
(***************************************************************************)
\* index texts a caller passes: canonical indices the store holds, canonical
\* indices it lacks, 'chapter.sloka' texts, malformed texts, the empty text
IndexInputs ==
    { StoredIndex(KRISHNA_BG, 1, 10), StoredIndex(KRISHNA_BG, 0, 1),
      StoredIndex(KRISHNA_BG, 9, 10), StoredIndex(KRISHNA_BG, 1, 1),
      StoredIndex(KRISHNA_BG, 1, 9), StoredIndex(RA_01, 0, 1),
      StoredIndex(RA_01, 1, 1), StoredIndex(YS, 1, 1),
      StoredIndex(KRISHNA_BG, 1, 5), StoredIndex(KRISHNA_BG, 0, 0),
      <<"1", ".", "1", "0">>, <<"0", ".", "1">>, <<"1", ".", "5">>,
      <<"1", ".", "9">>, <<"1", ".">>, <<"1", ".", "1", ".", "1">>,
      <<"-", "1", ".", "1">>, <<"a">>, <<>> }

\* scripture names a caller passes, or None
ScriptureInputs ==
    { PyStr(GitaName), PyStr(<<"G", "I", "T", "A">>), PyStr(<<"r", "a">>),
      PyStr(<<"R", "A">>), PyStr(YogasutrasName),
      PyStr(<<"Y", "o", "g", "a", "S", "u", "t", "r", "a", "s">>),
      PyStr(<<"n", "o">>), PyStr(<<>>), PyNone }

InitMeaning ==
    /\ \E idx \in IndexInputs, name \in ScriptureInputs :
          req = [op |-> "get_sloka_meaning", sloka_index |-> idx,
                 scripture_name |-> name]
    /\ db \in {d \in VerseStores : d.summarizer = "down"}
    /\ ret = NoRet
    /\ pc = "call"

\* the get_sloka_meaning tool
get_sloka_meaning_call ==
    /\ pc = "call"
    /\ req.op = "get_sloka_meaning"
    /\ ret' = get_sloka_meaning(req.sloka_index, req.scripture_name)
    /\ pc' = "done"
    /\ UNCHANGED <<db, req>>

NextMeaning == get_sloka_meaning_call

SpecMeaning == InitMeaning /\ [][NextMeaning]_vars

InitNeighbors ==
    /\ \E idx \in IndexInputs, name \in ScriptureInputs,
          n \in -1..MaxNeighborCount,
          op \in {"previous_sloka_details", "next_sloka_details"},
          given \in BOOLEAN :
          req = [op |-> op,
                 sloka_index |-> IF given THEN PyStr(idx) ELSE PyNone,
                 scripture_name |-> name, count |-> n]
    /\ db \in {d \in VerseStores : d.summarizer = "down" /\ d.bhashya_up = d.up}
    /\ ret = NoRet
    /\ pc = "call"

\* the previous_sloka_details tool
previous_sloka_details ==
    /\ pc = "call"
    /\ req.op = "previous_sloka_details"
    /\ ret' = get_slokas_before_current_sloka(req.sloka_index,
                                              req.scripture_name, req.count)
    /\ pc' = "done"
    /\ UNCHANGED <<db, req>>

\* the next_sloka_details tool
next_sloka_details ==
    /\ pc = "call"
    /\ req.op = "next_sloka_details"
    /\ ret' = get_slokas_after_current_sloka(req.sloka_index,
                                             req.scripture_name, req.count)
    /\ pc' = "done"
    /\ UNCHANGED <<db, req>>

NextNeighbors == previous_sloka_details \/ next_sloka_details

SpecNeighbors == InitNeighbors /\ [][NextNeighbors]_vars

InitContext ==
    /\ \E idx \in IndexInputs, name \in ScriptureInputs,
          op \in {"surrounding_context", "trace_immediate_context"} :
          req = [op |-> op, sloka_index |-> idx, scripture_name |-> name]
    /\ db \in VerseStores
    /\ ret = NoRet
    /\ pc = "call"

\* the surrounding_context tool
surrounding_context ==
    /\ pc = "call"
    /\ req.op = "surrounding_context"
    /\ ret' = immediate_surrounding_context(req.sloka_index, req.scripture_name)
    /\ pc' = "done"
    /\ UNCHANGED <<db, req>>

\* a direct call of pgutils.trace_immediate_context
trace_immediate_context_call ==
    /\ pc = "call"
    /\ req.op = "trace_immediate_context"
    /\ ret' = trace_immediate_context(PyStr(req.sloka_index), req.scripture_name)
    /\ pc' = "done"
    /\ UNCHANGED <<db, req>>

NextContext == surrounding_context \/ trace_immediate_context_call

SpecContext == InitContext /\ [][NextContext]_vars

\* scripture names asked of the chapter context tool
ChapterScriptureInputs ==
    { PyStr(RamayanaName), PyStr(<<"R", "a", "m", "a", "y", "a", "n", "a">>),
      PyStr(MahabharataName), PyStr(BhagavathamName), PyStr(GitaName),
      PyStr(<<"r", "a">>), PyStr(<<>>), PyNone }

\* indices asked of the chapter context tool: inside, at the ends of and
\* outside the stored intervals
ChapterIndexInputs ==
    (IndexInputs \ {<<"a">>})
        \cup {StoredIndex(RA_01, 0, 99), StoredIndex(RA_01, 1, 50),
              StoredIndex(RA_01, 9, 99)}

InitChapter ==
    /\ \E idx \in ChapterIndexInputs, name \in ChapterScriptureInputs :
          req = [op |-> "get_chapter_context", sloka_index |-> idx,
                 scripture_name |-> name]
    /\ db \in {d \in VerseStores : d.summarizer = "down" /\ d.bhashya_up = d.up}
    /\ ret = NoRet
    /\ pc = "call"

\* the get_chapter_context tool
get_chapter_context_call ==
    /\ pc = "call"
    /\ req.op = "get_chapter_context"
    /\ ret' = get_chapter_context(req.sloka_index, req.scripture_name)
    /\ pc' = "done"
    /\ UNCHANGED <<db, req>>

NextChapter == get_chapter_context_call

SpecChapter == InitChapter /\ [][NextChapter]_vars

InitBhashya ==
    /\ \E idx \in IndexInputs, name \in ScriptureInputs, given \in BOOLEAN :
          req = [op |-> "get_bhashya_references",
                 sloka_index |-> IF given THEN PyStr(idx) ELSE PyNone,
                 scripture_name |-> name]
    /\ db \in {d \in VerseStores : d.summarizer = "down"}
    /\ ret = NoRet
    /\ pc = "call"

\* the get_bhashya_references tool
get_bhashya_references_call ==
    /\ pc = "call"
    /\ req.op = "get_bhashya_references"
    /\ ret' = get_bhashya_references(req.sloka_index, req.scripture_name)
    /\ pc' = "done"
    /\ UNCHANGED <<db, req>>

NextBhashya == get_bhashya_references_call

SpecBhashya == InitBhashya /\ [][NextBhashya]_vars

(***************************************************************************)
(* Channel searches and chapter-level searches.                            *)
(***************************************************************************)
\* the two query texts that embed; embeddings are vectors of one integer
QueryA == <<"d">>

QueryB == <<"k">>

\* the vector the provider gives a text
EmbeddingOf(text) == IF text = QueryA THEN 1 ELSE 0 - 1

\* str.strip() leaves nothing
IsBlank(text) == \A i \in 1..Len(text) : text[i] = " "

\* llmutils.get_embeddings: None for an empty or whitespace-only text and
\* when the provider call fails, else the provider's vector
get_embeddings(text) ==
    IF IsBlank(text) \/ db.embedder = "down"
    THEN [none |-> TRUE, vec |-> 0]
    ELSE [none |-> FALSE, vec |-> EmbeddingOf(text)]

\* (1 - (embedding <#> q)) AS score, <#> being the negative inner product
ScoreOf(embedding, q) == 1 - (0 - (embedding * q))

\* rows of equal score come out of ORDER BY score DESC in either order
TieOrders == {"as stored", "reversed"}

\* where x goes among rows already in descending order of score
\* (SortRowsByScoreDesc looks at the grown list before it takes the next row)
ScoreSlot(sorted, x, tie) ==
    Cardinality({i \in 1..Len(sorted) :
                    \/ sorted[i].score > x.score
                    \/ sorted[i].score = x.score /\ tie = "as stored"})

RECURSIVE SortRowsByScoreDesc(_, _, _)
SortRowsByScoreDesc(sorted, rest, tie) ==
    IF rest = <<>> THEN sorted
    ELSE LET x == Head(rest)
             p == ScoreSlot(sorted, x, tie)
             grown == SubSeq(sorted, 1, p) \o <<x>>
                          \o SubSeq(sorted, p + 1, Len(sorted))
         IN  IF Len(grown) > Len(sorted)
             THEN SortRowsByScoreDesc(grown, Tail(rest), tie)
             ELSE sorted

\* a store that reads the text 'None' as a vector
execute_search_query_any_text(rows, emb, top_n, tie) ==
    IF ~db.up \/ top_n < 0
    THEN [raised |-> TRUE, rows |-> <<>>]
    ELSE LET scored == [i \in 1..Len(rows) |->
                           [row |-> rows[i],
                            score |-> ScoreOf(rows[i].embedding, emb.vec)]]
             ordered == SortRowsByScoreDesc(<<>>, scored, tie)
         IN  [raised |-> FALSE,
              rows |-> SubSeq(ordered, 1, Min(top_n, Len(ordered)))]

\* a search query: SELECT ..., score ... ORDER BY score DESC LIMIT top_n with
\* str(embedding) written into its text.  The store rejects the text 'None'
\* as a vector and a negative LIMIT.
execute_search_query(rows, emb, top_n, tie) ==
    IF ~db.up \/ emb.none \/ top_n < 0
    THEN [raised |-> TRUE, rows |-> <<>>]
    ELSE LET scored == [i \in 1..Len(rows) |->
                           [row |-> rows[i],
                            score |-> ScoreOf(rows[i].embedding, emb.vec)]]
             ordered == SortRowsByScoreDesc(<<>>, scored, tie)
         IN  [raised |-> FALSE,
              rows |-> SubSeq(ordered, 1, Min(top_n, Len(ordered)))]

\* the three channel searches of pgutils, which differ in table and
\* content_type: clamp top_n, embed the text, filter by content_type and by
\* the listed scriptures when the list is truthy, order by score, limit;
\* rows without sloka_index are skipped and each kept row gets its
\* commentary references; any exception of the query gives []
search_sloka_meaning_embeddings_top_n(table, content_type, text, top_n, scripture_list, tie) ==
    LET clamped == Min(top_n, MAX_RESULTS_LIMIT)
        sloka_embedding == get_embeddings(text)
        listed == {scripture_list.items[i] : i \in 1..Len(scripture_list.items)}
        filtered ==
            SelectSeq(db.tables[table],
                LAMBDA r : /\ r.content_type = content_type
                           /\ (~scripture_list.none /\ scripture_list.items # <<>>)
                                  => r.scripture_name \in listed)
        q == execute_search_query(filtered, sloka_embedding, clamped, tie)
        kept == SelectSeq(q.rows, LAMBDA r : r.row.sloka_index # <<>>)
    IN  IF q.raised THEN [raised |-> FALSE, rows |-> <<>>]
        ELSE [raised |-> FALSE,
              rows |-> [i \in 1..Len(kept) |->
                          [sloka_index |-> kept[i].row.sloka_index,
                           scripture_name |-> kept[i].row.scripture_name,
                           score |-> kept[i].score,
                           bhashya_sloka_indexes |->
                               get_bhashya_references(
                                   PyStr(kept[i].row.sloka_index),
                                   PyStr(kept[i].row.scripture_name)).rows]]]

search_sloka_meaning_en_embeddings_top_n(text, top_n, scripture_list, tie) ==
    search_sloka_meaning_embeddings_top_n(
        "sloka_meaning_en_embeddings", "english", text, top_n, scripture_list, tie)

search_sloka_meaning_sa_embeddings_top_n(text, top_n, scripture_list, tie) ==
    search_sloka_meaning_embeddings_top_n(
        "sloka_meaning_sa_embeddings", "sanskrit", text, top_n, scripture_list, tie)

search_sloka_meaning_glossary_embeddings_top_n(text, top_n, scripture_list, tie) ==
    search_sloka_meaning_embeddings_top_n(
        "sloka_meaning_glossary_embeddings", "glossary", text, top_n,
        scripture_list, tie)

\* misctools.normalize_sloka_search_results: rows without sloka_index are
\* skipped; each kept row becomes a dict of exactly these keys, rank being
\* the row's place in raw
normalize_sloka_search_results(raw) ==
    LET places == SelectSeq([i \in 1..Len(raw) |-> i],
                            LAMBDA i : raw[i].sloka_index # <<>>)
    IN  [k \in 1..Len(places) |->
            [sloka_index |-> raw[places[k]].sloka_index,
             scripture_name |-> raw[places[k]].scripture_name,
             score |-> raw[places[k]].score,
             context_text |-> "None",
             result_type |-> "verse",
             lookup_ready |-> TRUE,
             rank |-> places[k]]]

\* a chapter-level search that passes top_n to LIMIT as given
search_summary_embeddings_unclamped(view, text, top_n, tie) ==
    LET sloka_embedding == get_embeddings(text)
        q == execute_search_query(db.tables[view], sloka_embedding, top_n, tie)
    IN  IF q.raised THEN [raised |-> FALSE, rows |-> <<>>]
        ELSE [raised |-> FALSE,
              rows |-> [i \in 1..Len(q.rows) |->
                          [summary_id |-> q.rows[i].row.summary_id,
                           short_summary |-> q.rows[i].row.short_summary,
                           score |-> q.rows[i].score]]]

\* the six chapter-level searches of pgutils, which differ in the view:
\* clamp top_n, embed the text, order the view by score, limit; any
\* exception of the query gives []
search_summary_embeddings_top_n(view, text, top_n, tie) ==
    LET clamped == Min(top_n, MAX_RESULTS_LIMIT)
        sloka_embedding == get_embeddings(text)
        q == execute_search_query(db.tables[view], sloka_embedding, clamped, tie)
    IN  IF q.raised THEN [raised |-> FALSE, rows |-> <<>>]
        ELSE [raised |-> FALSE,
              rows |-> [i \in 1..Len(q.rows) |->
                          [summary_id |-> q.rows[i].row.summary_id,
                           short_summary |-> q.rows[i].row.short_summary,
                           score |-> q.rows[i].score]]]

\* misctools.build_chapter_summary_results: every row, in order, with the
\* structure level added
build_chapter_summary_results(raw, structure_level) ==
    [i \in 1..Len(raw) |->
        [summary_id |-> raw[i].summary_id,
         structure_level |-> structure_level,
         short_summary |-> raw[i].short_summary,
         score |-> raw[i].score]]

\* the tools of main.py over these searches
ChannelTools ==
    {"search_slokas_index_list_sanskrit_top_n",
     "search_slokas_index_list_english_top_n",
     "search_slokas_index_list_glossary_top_n"}

SummaryTools ==
    {"search_ramayana_sarga_summaries", "search_ramayana_chapter_glossary_terms",
     "search_mahabharata_adhyaya_summaries",
     "search_mahabharata_chapter_glossary_terms",
     "search_bhagavatham_adhyaya_summaries",
     "search_bhagavatham_chapter_glossary_terms"}

\* the rows the pgutils function under a channel tool gives
ChannelRaw(op, text, top_n, scripture_list, tie) ==
    CASE op = "search_slokas_index_list_sanskrit_top_n" ->
             search_sloka_meaning_sa_embeddings_top_n(text, top_n, scripture_list, tie)
      [] op = "search_slokas_index_list_english_top_n" ->
             search_sloka_meaning_en_embeddings_top_n(text, top_n, scripture_list, tie)
      [] op = "search_slokas_index_list_glossary_top_n" ->
             search_sloka_meaning_glossary_embeddings_top_n(text, top_n,
                                                            scripture_list, tie)

\* a channel tool: the pgutils search, then normalize_sloka_search_results
ChannelTool(op, text, top_n, scripture_list, tie) ==
    [raised |-> FALSE,
     rows |-> normalize_sloka_search_results(
                  ChannelRaw(op, text, top_n, scripture_list, tie).rows)]

\* the view a chapter-level tool searches
ViewOf(op) ==
    CASE op = "search_ramayana_sarga_summaries" ->
             "mv_ramayana_sarga_embeddings_enriched"
      [] op = "search_ramayana_chapter_glossary_terms" ->
             "mv_ramayana_glossary_embeddings_enriched"
      [] op = "search_mahabharata_adhyaya_summaries" ->
             "mv_mahabharata_adhyaya_embeddings_enriched"
      [] op = "search_mahabharata_chapter_glossary_terms" ->
             "mv_mahabharata_glossary_embeddings_enriched"
      [] op = "search_bhagavatham_adhyaya_summaries" ->
             "mv_bhagavatham_adhyaya_embeddings_enriched"
      [] op = "search_bhagavatham_chapter_glossary_terms" ->
             "mv_bhagavatham_glossary_embeddings_enriched"

\* a summaries tool maps the rows with build_chapter_summary_results
SummariesTool(op, structure_level, text, top_n, tie) ==
    [raised |-> FALSE,
     rows |-> build_chapter_summary_results(
                  search_summary_embeddings_top_n(ViewOf(op), text, top_n, tie).rows,
                  structure_level)]

\* a chapter glossary tool returns the rows of the search as they are
GlossaryTermsTool(op, text, top_n, tie) ==
    search_summary_embeddings_top_n(ViewOf(op), text, top_n, tie)

VerseTables ==
    {"sloka_meaning_en_embeddings", "sloka_meaning_sa_embeddings",
     "sloka_meaning_glossary_embeddings"}

SummaryViews == {ViewOf(op) : op \in SummaryTools}

ContentTypeOf(table) ==
    CASE table = "sloka_meaning_en_embeddings" -> "english"
      [] table = "sloka_meaning_sa_embeddings" -> "sanskrit"
      [] table = "sloka_meaning_glossary_embeddings" -> "glossary"

\* a small verse table: two rows of equal embedding, a row without
\* sloka_index, a row of another content_type
FewEmbeddingRows(table) ==
    << [sloka_index |-> StoredIndex(KRISHNA_BG, 1, 10),
        scripture_name |-> GitaName,
        content_type |-> ContentTypeOf(table), embedding |-> 3],
       [sloka_index |-> StoredIndex(KRISHNA_BG, 1, 1),
        scripture_name |-> GitaName,
        content_type |-> ContentTypeOf(table), embedding |-> 5],
       [sloka_index |-> StoredIndex(RA_01, 0, 1),
        scripture_name |-> <<"r", "a">>,
        content_type |-> ContentTypeOf(table), embedding |-> 3],
       [sloka_index |-> <<>>,
        scripture_name |-> GitaName,
        content_type |-> ContentTypeOf(table), embedding |-> 9],
       [sloka_index |-> StoredIndex(YS, 1, 1),
        scripture_name |-> YogasutrasName,
        content_type |-> ContentTypeOf(table), embedding |-> 1],
       [sloka_index |-> StoredIndex(KRISHNA_BG, 9, 10),
        scripture_name |-> GitaName,
        content_type |-> "other", embedding |-> 8] >>

\* a table of more rows than the largest LIMIT, all embeddings distinct
ManyRowsCount == MAX_RESULTS_LIMIT + 2

ManyEmbeddingRows(table) ==
    [i \in 1..ManyRowsCount |->
        [sloka_index |-> StoredIndex(KRISHNA_BG, i \div 10, i % 10),
         scripture_name |-> GitaName,
         content_type |-> ContentTypeOf(table),
         embedding |-> (i * 7) % (ManyRowsCount + 1)]]

FewSummaryRows ==
    << [summary_id |-> 1, short_summary |-> "one", embedding |-> 4],
       [summary_id |-> 2, short_summary |-> "two", embedding |-> 4],
       [summary_id |-> 3, short_summary |-> "three", embedding |-> 2] >>

ManySummaryRows ==
    [i \in 1..ManyRowsCount |->
        [summary_id |-> i, short_summary |-> "many",
         embedding |-> (i * 7) % (ManyRowsCount + 1)]]

SearchTables ==
    { [t \in VerseTables \cup SummaryViews |->
          IF t \in VerseTables THEN FewEmbeddingRows(t) ELSE FewSummaryRows],
      [t \in VerseTables \cup SummaryViews |->
          IF t \in VerseTables THEN ManyEmbeddingRows(t) ELSE ManySummaryRows] }

SearchStores ==
    { [up |-> u, bhashya_up |-> u, embedder |-> e, tables |-> t,
       gita_bhashya |-> GitaBhashyaRows,
       yogasutras_bhashyas |-> YogasutrasBhashyaRows] :
         u \in BOOLEAN, e \in {"up", "down"}, t \in SearchTables }

\* texts a caller searches for: empty, whitespace only, and two that embed
TextInputs == {<<>>, <<" ">>, QueryA, QueryB}

\* sizes a caller asks for: negative, zero, small, at and above the maximum
TopNInputs ==
    (-1..MaxTopN) \cup {MAX_RESULTS_LIMIT, MAX_RESULTS_LIMIT + 1}

NoList == [none |-> TRUE, items |-> <<>>]

PyList(items) == [none |-> FALSE, items |-> items]

\* scripture lists a caller passes, or None
ScriptureListInputs ==
    { NoList, PyList(<<>>), PyList(<<GitaName>>),
      PyList(<< <<"G", "i", "t", "a">> >>),
      PyList(<<GitaName, <<"r", "a">> >>), PyList(<< <<"n", "o">> >>) }

InitSearch ==
    /\ \/ \E op \in ChannelTools, text \in TextInputs, n \in TopNInputs,
             list \in ScriptureListInputs :
             req = [op |-> op, text |-> text, top_n |-> n,
                    scripture_list |-> list]
       \/ \E op \in SummaryTools, text \in TextInputs, n \in TopNInputs :
             req = [op |-> op, text |-> text, top_n |-> n,
                    scripture_list |-> NoList]
    /\ db \in SearchStores
    /\ ret = NoRet
    /\ pc = "call"

\* what a search leaves in ret: its answer, and the rows the same request
\* got the time before
Answered(r) ==
    [raised |-> r.raised, rows |-> r.rows,
     calls |-> IF pc = "call" THEN 1 ELSE 2,
     earlier |-> IF pc = "call" THEN <<>> ELSE ret.rows]

\* the request is made, and then made once more on the same store
Asked(op) ==
    /\ pc \in {"call", "again"}
    /\ req.op = op
    /\ pc' = IF pc = "call" THEN "again" ELSE "done"
    /\ UNCHANGED <<db, req>>

search_slokas_index_list_sanskrit_top_n ==
    /\ Asked("search_slokas_index_list_sanskrit_top_n")
    /\ \E tie \in TieOrders :
          ret' = Answered(ChannelTool(req.op, req.text, req.top_n,
                                      req.scripture_list, tie))

search_slokas_index_list_english_top_n ==
    /\ Asked("search_slokas_index_list_english_top_n")
    /\ \E tie \in TieOrders :
          ret' = Answered(ChannelTool(req.op, req.text, req.top_n,
                                      req.scripture_list, tie))

search_slokas_index_list_glossary_top_n ==
    /\ Asked("search_slokas_index_list_glossary_top_n")
    /\ \E tie \in TieOrders :
          ret' = Answered(ChannelTool(req.op, req.text, req.top_n,
                                      req.scripture_list, tie))

search_ramayana_sarga_summaries ==
    /\ Asked("search_ramayana_sarga_summaries")
    /\ \E tie \in TieOrders :
          ret' = Answered(SummariesTool(req.op, "sarga", req.text, req.top_n, tie))

search_ramayana_chapter_glossary_terms ==
    /\ Asked("search_ramayana_chapter_glossary_terms")
    /\ \E tie \in TieOrders :
          ret' = Answered(GlossaryTermsTool(req.op, req.text, req.top_n, tie))

search_mahabharata_adhyaya_summaries ==
    /\ Asked("search_mahabharata_adhyaya_summaries")
    /\ \E tie \in TieOrders :
          ret' = Answered(SummariesTool(req.op, "adhyaya", req.text, req.top_n, tie))

search_mahabharata_chapter_glossary_terms ==
    /\ Asked("search_mahabharata_chapter_glossary_terms")
    /\ \E tie \in TieOrders :
          ret' = Answered(GlossaryTermsTool(req.op, req.text, req.top_n, tie))

search_bhagavatham_adhyaya_summaries ==
    /\ Asked("search_bhagavatham_adhyaya_summaries")
    /\ \E tie \in TieOrders :
          ret' = Answered(SummariesTool(req.op, "adhyaya", req.text, req.top_n, tie))

search_bhagavatham_chapter_glossary_terms ==
    /\ Asked("search_bhagavatham_chapter_glossary_terms")
    /\ \E tie \in TieOrders :
          ret' = Answered(GlossaryTermsTool(req.op, req.text, req.top_n, tie))

NextSearch ==
    \/ search_slokas_index_list_sanskrit_top_n
    \/ search_slokas_index_list_english_top_n
    \/ search_slokas_index_list_glossary_top_n
    \/ search_ramayana_sarga_summaries
    \/ search_ramayana_chapter_glossary_terms
    \/ search_mahabharata_adhyaya_summaries
    \/ search_mahabharata_chapter_glossary_terms
    \/ search_bhagavatham_adhyaya_summaries
    \/ search_bhagavatham_chapter_glossary_terms

SpecSearch == InitSearch /\ [][NextSearch]_vars

(***************************************************************************)
(* The connection pool (utils/pgconnect.py).  Callers are the threads that *)
(* run operations; each operation makes its data-store accesses one after  *)
(* another through execute_query.  Here pc stays "threads" and every       *)
(* caller's own position is ret[c].at.  The module-level _connection_pool  *)
(* is db.pool: 0 is None, n is the n-th pool that was constructed.         *)
(***************************************************************************)
Callers == {"c1", "c2"}

MaxAccesses == 2

\* db_config.max_connections
MaxConnections == {1, Cardinality(Callers)}

PoolIds == 1..Cardinality(Callers)

NewCaller ==
    [at |-> "enter", held |-> <<>>, fresh |-> 0, n |-> 0, path |-> "normal",
     raising |-> FALSE, results |-> <<>>, errors |-> {}]

InitPool ==
    /\ db \in [pool : {0}, made : {0}, out : {[p \in PoolIds |-> 0]},
               maxconn : MaxConnections, reachable : BOOLEAN,
               query_ok : BOOLEAN, rollback_ok : BOOLEAN]
    /\ req \in [op : {"execute_query"}, accesses : [Callers -> 0..MaxAccesses]]
    /\ \E c \in Callers : req.accesses[c] > 0
    /\ ret = [c \in Callers |->
                 IF req.accesses[c] = 0 THEN [NewCaller EXCEPT !.at = "done"]
                 ELSE NewCaller]
    /\ pc = "threads"

At(c, label) ==
    /\ pc = "threads"
    /\ req.op = "execute_query"
    /\ ret[c].at = label

\* the pool the finally clause of get_connection hands the connection to:
\* whatever _connection_pool is at that moment, on every path
get_connection_finally(path, held, pool) ==
    IF held = <<>> THEN 0 ELSE pool

\* get_connection, line 108: is there a pool yet
get_connection ==
    \E c \in Callers :
        /\ At(c, "enter")
        /\ ret' = [ret EXCEPT ![c].at = IF db.pool = 0 THEN "init" ELSE "getconn"]
        /\ UNCHANGED <<db, req, pc>>

\* initialize_connection_pool, line 62: the test that guards the construction
initialize_connection_pool ==
    \E c \in Callers :
        /\ At(c, "init")
        /\ ret' = [ret EXCEPT ![c].at = IF db.pool = 0 THEN "construct" ELSE "getconn"]
        /\ UNCHANGED <<db, req, pc>>

\* line 65, right-hand side: ThreadedConnectionPool(...) connects to the
\* store; when it raises, initialize_connection_pool returns False,
\* get_connection raises with no connection and execute_query re-raises
ThreadedConnectionPool ==
    \E c \in Callers :
        /\ At(c, "construct")
        /\ IF db.reachable
           THEN /\ db' = [db EXCEPT !.made = @ + 1]
                /\ ret' = [ret EXCEPT ![c].fresh = db.made + 1, ![c].at = "assign"]
           ELSE /\ ret' = [ret EXCEPT ![c].raising = TRUE, ![c].at = "exit",
                                      ![c].errors = @ \cup {"no pool"}]
                /\ UNCHANGED db
        /\ UNCHANGED <<req, pc>>

\* line 65, the store into the global
assign_connection_pool ==
    \E c \in Callers :
        /\ At(c, "assign")
        /\ db' = [db EXCEPT !.pool = ret[c].fresh]
        /\ ret' = [ret EXCEPT ![c].at = "getconn"]
        /\ UNCHANGED <<req, pc>>

\* line 113: _connection_pool.getconn(); an exhausted pool raises PoolError
getconn ==
    \E c \in Callers :
        /\ At(c, "getconn")
        /\ IF db.out[db.pool] < db.maxconn
           THEN /\ db' = [db EXCEPT !.out[db.pool] = @ + 1]
                /\ ret' = [ret EXCEPT ![c].held = Append(@, db.pool),
                                      ![c].at = "execute"]
           ELSE /\ ret' = [ret EXCEPT ![c].raising = TRUE, ![c].at = "exit",
                                      ![c].errors = @ \cup {"exhausted"}]
                /\ UNCHANGED db
        /\ UNCHANGED <<req, pc>>

\* execute_query, lines 185-200: the cursor runs the query and fetches
cursor_execute ==
    \E c \in Callers :
        /\ At(c, "execute")
        /\ ret' = IF db.query_ok
                  THEN [ret EXCEPT ![c].at = "finally"]
                  ELSE [ret EXCEPT ![c].raising = TRUE, ![c].path = "query error",
                                   ![c].at = "rollback",
                                   ![c].errors = @ \cup {"query"}]
        /\ UNCHANGED <<db, req, pc>>

\* get_connection, lines 121-124: roll back and raise again; a failing
\* rollback raises in place of the query's error
rollback ==
    \E c \in Callers :
        /\ At(c, "rollback")
        /\ ret' = IF db.rollback_ok
                  THEN [ret EXCEPT ![c].at = "finally"]
                  ELSE [ret EXCEPT ![c].path = "rollback error", ![c].at = "finally",
                                   ![c].errors = @ \cup {"rollback"}]
        /\ UNCHANGED <<db, req, pc>>

\* get_connection, lines 126-130: putconn on the pool that is current now;
\* a pool that did not hand the connection out raises PoolError and keeps
\* nothing
putconn ==
    \E c \in Callers :
        /\ At(c, "finally")
        /\ LET to == get_connection_finally(ret[c].path, ret[c].held, db.pool)
           IN  IF to = 0
               THEN /\ ret' = [ret EXCEPT ![c].at = "exit"]
                    /\ UNCHANGED db
               ELSE IF to = ret[c].held[1]
               THEN /\ db' = [db EXCEPT !.out[to] = @ - 1]
                    /\ ret' = [ret EXCEPT ![c].held = Tail(@), ![c].at = "exit"]
               ELSE /\ ret' = [ret EXCEPT ![c].raising = TRUE, ![c].at = "exit",
                                          ![c].errors = @ \cup {"unkeyed"}]
                    /\ UNCHANGED db
        /\ UNCHANGED <<req, pc>>

\* execute_query returns the rows or re-raises (lines 202-206); the
\* operation goes on to its next access
execute_query_returns ==
    \E c \in Callers :
        /\ At(c, "exit")
        /\ ret' = [ret EXCEPT
                     ![c].results = Append(@, IF ret[c].raising THEN "raised" ELSE "rows"),
                     ![c].n = @ + 1,
                     ![c].raising = FALSE,
                     ![c].path = "normal",
                     ![c].at = IF ret[c].n + 1 >= req.accesses[c] THEN "done" ELSE "enter"]
        /\ UNCHANGED <<db, req, pc>>

NextPool ==
    \/ get_connection
    \/ initialize_connection_pool
    \/ ThreadedConnectionPool
    \/ assign_connection_pool
    \/ getconn
    \/ cursor_execute
    \/ rollback
    \/ putconn
    \/ execute_query_returns

SpecPool == InitPool /\ [][NextPool]_vars

(***************************************************************************)
(* The chat relay (chatws/app/main.py): one websocket connection.  db is   *)
(* what the relay depends on (the token verifier), req is the connection   *)
(* as the client opens it, ret is what the relay has done on the socket,   *)
(* pc is the handler's position.                                           *)
(***************************************************************************)
Bearer == <<"B", "e", "a", "r", "e", "r", " ">>

\* str.startswith
StartsWith(s, prefix) ==
    /\ Len(s) >= Len(prefix)
    /\ SubSeq(s, 1, Len(prefix)) = prefix

\* str.replace(old, ""): every occurrence of old is removed, left to right
RECURSIVE RemoveAll(_, _)
RemoveAll(s, old) ==
    IF s = <<>> THEN <<>>
    ELSE IF StartsWith(s, old)
    THEN RemoveAll(SubSeq(s, Len(old) + 1, Len(s)), old)
    ELSE <<Head(s)>> \o RemoveAll(Tail(s), old)

\* the Authorization headers a client may send; absent reads as ""
AuthorizationHeaders ==
    {<<>>, <<"g">>, Bearer \o <<"g">>, Bearer \o <<"x">>,
     <<"b", "e", "a", "r", "e", "r", " ", "g">>, Bearer \o Bearer \o <<"g">>}

\* the ID tokens the verifier accepts
ValidTokens == {<<"g">>}

\* firebase.auth_with_firebase: the user id, or an HTTPException
auth_with_firebase(id_token) ==
    IF db.firebase = "up" /\ id_token \in ValidTokens
    THEN [raised |-> FALSE, user |-> "u1"]
    ELSE [raised |-> TRUE, user |-> ""]

\* the parts an event of the agent's answer may carry
TextPart(t) == [kind |-> "text", text |-> t, content |-> <<>>]

FunctionResponsePart(content) ==
    [kind |-> "functionResponse", text |-> "", content |-> content]

OtherPart == [kind |-> "functionCall", text |-> "", content |-> <<>>]

EventParts ==
    {TextPart("t1"), TextPart("t2"), OtherPart,
     FunctionResponsePart(<<[type |-> "text", text |-> "f1"]>>),
     FunctionResponsePart(<<[type |-> "image", text |-> ""]>>),
     FunctionResponsePart(<<>>)}

\* an event has no "content", a null one, or one with a list of parts
AdkEvents ==
    {[content |-> "absent", parts |-> <<>>], [content |-> "null", parts |-> <<>>],
     [content |-> "dict", parts |-> <<>>]}
    \cup {[content |-> "dict", parts |-> <<p>>] : p \in EventParts}
    \cup {[content |-> "dict", parts |-> <<OtherPart, p>>] : p \in EventParts}

MaxEvents == 2

\* what response.json() gives for a 200 answer of the agent
AdkResults ==
    {[kind |-> "dict", events |-> <<>>]}
    \cup {[kind |-> "list", events |-> e] :
              e \in UNION {[1..n -> AdkEvents] : n \in 0..MaxEvents}}

\* the first text item of a function response, if any
RECURSIVE FirstTextItem(_)
FirstTextItem(content) ==
    IF content = <<>> THEN [found |-> FALSE, text |-> ""]
    ELSE IF Head(content).type = "text"
    THEN [found |-> TRUE, text |-> Head(content).text]
    ELSE FirstTextItem(Tail(content))

\* the parts of one event, in order
RECURSIVE FirstReplyOfParts(_)
FirstReplyOfParts(parts) ==
    IF parts = <<>> THEN [found |-> FALSE, text |-> ""]
    ELSE LET part == Head(parts)
             item == FirstTextItem(part.content)
         IN  IF part.kind = "text" THEN [found |-> TRUE, text |-> part.text]
             ELSE IF part.kind = "functionResponse" /\ item.found THEN item
             ELSE FirstReplyOfParts(Tail(parts))

\* the events from the last to the first; a null content makes
\* event.get("content", {}).get("parts", []) raise
RECURSIVE FirstReplyOfEvents(_)
FirstReplyOfEvents(events) ==
    IF events = <<>> THEN [raised |-> FALSE, value |-> "[No reply found]"]
    ELSE LET event == events[Len(events)]
             reply == FirstReplyOfParts(event.parts)
         IN  IF event.content = "null" THEN [raised |-> TRUE, value |-> ""]
             ELSE IF reply.found THEN [raised |-> FALSE, value |-> reply.text]
             ELSE FirstReplyOfEvents(SubSeq(events, 1, Len(events) - 1))

extract_best_reply(result) ==
    IF result.kind = "list"
    THEN FirstReplyOfEvents(result.events)
    ELSE [raised |-> FALSE, value |-> "[No reply found]"]

\* the answers of the agent service to POST /run: no answer at all
\* (requests raises), an error status with its text, a 200 whose body is
\* not JSON, a 200 with a JSON body
AdkRuns ==
    {[status |-> 0, text |-> "", json |-> FALSE, result |-> [kind |-> "dict", events |-> <<>>]],
     [status |-> 500, text |-> "Internal Server Error", json |-> FALSE,
      result |-> [kind |-> "dict", events |-> <<>>]],
     [status |-> 200, text |-> "<html>", json |-> FALSE,
      result |-> [kind |-> "dict", events |-> <<>>]]}
    \cup {[status |-> 200, text |-> "", json |-> TRUE, result |-> r] : r \in AdkResults}

\* the answers to the session lookup: found, not found, no answer
AdkSessions == {200, 404, 0}

MaxMessages == 2

StatusFrame == [type |-> "status", body |-> "working"]

MessageFrame(reply) == [type |-> "message", body |-> reply]

ErrorFrame(text) == [type |-> "error", body |-> text]

InitChat ==
    /\ db \in [firebase : {"up", "down"}]
    /\ req \in [op : {"websocket_endpoint"}, authorization : AuthorizationHeaders,
                messages : 0..MaxMessages]
    /\ ret = [accepted |-> FALSE, close_code |-> 0, reads |-> 0,
              frames |-> <<>>, raised |-> FALSE]
    /\ pc = "connect"

\* lines 58-82: the header must start with "Bearer " and the rest must
\* verify; otherwise close(code=1008) and return, else accept
websocket_endpoint ==
    /\ pc = "connect"
    /\ req.op = "websocket_endpoint"
    /\ LET id_token == req.authorization
           verified == auth_with_firebase(RemoveAll(id_token, Bearer))
       IN  IF ~StartsWith(id_token, Bearer) \/ verified.raised
           THEN /\ ret' = [ret EXCEPT !.close_code = 1008]
                /\ pc' = "ended"
           ELSE /\ ret' = [ret EXCEPT !.accepted = TRUE]
                /\ pc' = "listen"
    /\ UNCHANGED <<db, req>>

\* line 87: the next text message of the client, or WebSocketDisconnect
\* when the client has gone
receive_text ==
    /\ pc = "listen"
    /\ req.op = "websocket_endpoint"
    /\ IF ret.reads < req.messages
       THEN /\ ret' = [ret EXCEPT !.reads = @ + 1, !.frames = <<>>]
            /\ pc' = "received"
       ELSE /\ pc' = "ended"
            /\ UNCHANGED ret
    /\ UNCHANGED <<db, req>>

\* line 93: the status frame
send_status_working ==
    /\ pc = "received"
    /\ req.op = "websocket_endpoint"
    /\ ret' = [ret EXCEPT !.frames = Append(@, StatusFrame)]
    /\ pc' = "relay"
    /\ UNCHANGED <<db, req>>

\* lines 96-156: look the session up, create it when missing, post the
\* message to the agent and send what it answers; any exception ends the
\* handler (lines 159-163)
relay_to_adk ==
    /\ pc = "relay"
    /\ req.op = "websocket_endpoint"
    /\ \E session \in AdkSessions, create \in AdkSessions, run \in AdkRuns :
          LET reply == extract_best_reply(run.result)
              failed == \/ session = 0
                        \/ session # 200 /\ create = 0
                        \/ run.status = 0
                        \/ run.status = 200 /\ ~run.json
                        \/ run.status = 200 /\ reply.raised
          IN  IF failed
              THEN /\ ret' = [ret EXCEPT !.raised = TRUE]
                   /\ pc' = "ended"
              ELSE /\ ret' = [ret EXCEPT !.frames =
                              Append(@, IF run.status = 200
                                        THEN MessageFrame(reply.value)
                                        ELSE ErrorFrame(run.text))]
                   /\ pc' = "listen"
    /\ UNCHANGED <<db, req>>

NextChat ==
    \/ websocket_endpoint
    \/ receive_text
    \/ send_status_working
    \/ relay_to_adk

SpecChat == InitChat /\ [][NextChat]_vars

\* the handler is a coroutine the event loop keeps running: whatever step
\* it can take it takes
SpecChatLive == SpecChat /\ WF_vars(NextChat)

(***************************************************************************)
(* The whole model: any request, any tool.                                 *)
(***************************************************************************)
Init ==
    \/ InitRerank
    \/ InitCanon
    \/ InitMeaning
    \/ InitNeighbors
    \/ InitContext
    \/ InitChapter
    \/ InitBhashya
    \/ InitSearch
    \/ InitPool
    \/ InitChat

Next ==
    \/ rerank_slokas
    \/ canonicalize
    \/ get_sloka_meaning_call
    \/ previous_sloka_details
    \/ next_sloka_details
    \/ surrounding_context
    \/ trace_immediate_context_call
    \/ get_chapter_context_call
    \/ get_bhashya_references_call
    \/ NextSearch
    \/ NextPool
    \/ NextChat

Spec == Init /\ [][Next]_vars

(***************************************************************************)
(* Properties of rerank_slokas.                                            *)
(***************************************************************************)
RerankDone == pc = "done" /\ req.op = "rerank_slokas"

ChannelLabels == {"english", "sanskrit", "glossary"}

ChannelList(label) ==
    CASE label = "english" -> req.en
      [] label = "sanskrit" -> req.sa
      [] label = "glossary" -> req.gl

\* x and y name the same verse: equal sloka_index and equal scripture_name
SamePair(x, y) ==
    x.sloka_index = y.sloka_index /\ x.scripture_name = y.scripture_name

\* the channels whose list holds the verse of entry e
ChannelsHolding(e) ==
    {label \in ChannelLabels :
        \E i \in 1..Len(ChannelList(label)) : SamePair(ChannelList(label)[i], e)}

\* the candidates of the request in arrival order: english, sanskrit, glossary
Arrivals == req.en \o req.sa \o req.gl

\* the distinct verses the request names (a candidate without index names none)
DistinctPairs ==
    {[sloka_index |-> Arrivals[i].sloka_index,
      scripture_name |-> Arrivals[i].scripture_name] :
        i \in {j \in 1..Len(Arrivals) : Truthy(Arrivals[j].sloka_index)}}

\* where the verse of entry e first arrives
FirstArrival(e) ==
    CHOOSE i \in 1..Len(Arrivals) :
        /\ SamePair(Arrivals[i], e)
        /\ \A j \in 1..(i - 1) : ~SamePair(Arrivals[j], e)

\* C1: every returned entry's frequency is the number of distinct channels
\* that hold its key, equals the length of contributing_agents, and lies
\* in 1..3
C1_FrequencyIsChannelCount ==
    RerankDone =>
        \A i \in 1..Len(ret.value) :
            LET e == ret.value[i]
            IN  /\ e.frequency = Cardinality(ChannelsHolding(e))
                /\ e.frequency = Len(e.contributing_agents)
                /\ 1 <= e.frequency /\ e.frequency <= 3

\* C2: every returned entry has score = frequency * 10, and an entry whose
\* key is in all three channel lists comes before every entry whose key is
\* in only one, whatever the raw similarity scores
C2_ScoreLawAndAgreementFirst ==
    RerankDone =>
        /\ \A i \in 1..Len(ret.value) :
              ret.value[i].score = ret.value[i].frequency * 10
        /\ \A i, j \in 1..Len(ret.value) :
              (/\ Cardinality(ChannelsHolding(ret.value[i])) = 3
               /\ Cardinality(ChannelsHolding(ret.value[j])) = 1) => i < j

\* C3: candidates are coalesced exactly when they share sloka_index and
\* scripture_name: without truncation, every distinct verse of the request
\* has exactly one entry and every entry is one of those verses
C3_MergeKeyIsThePair ==
    (RerankDone /\ req.top_n >= Cardinality(DistinctPairs)) =>
        /\ \A v \in DistinctPairs :
              Cardinality({i \in 1..Len(ret.value) : SamePair(ret.value[i], v)}) = 1
        /\ \A i \in 1..Len(ret.value) :
              \E v \in DistinctPairs : SamePair(ret.value[i], v)

\* C4: for every top_n (taken here from 0 up, where min(top_n, keys) is a
\* length) the result has exactly min(top_n, number of distinct merged keys)
\* entries, and they are the first top_n of the full ranking
C4_TruncationAfterSort ==
    (RerankDone /\ req.top_n >= 0) =>
        /\ Len(ret.value) = Min(req.top_n, Cardinality(DistinctPairs))
        /\ LET full == rerank_sloka_candidates(req.en, req.sa, req.gl,
                                               Len(Arrivals), req.fetcher).value
           IN  \A i \in 1..Len(ret.value) :
                   i <= Len(full) /\ ret.value[i] = full[i]

\* C5: the result is sorted by non-increasing score, and entries of equal
\* score stand in the order in which their verses first arrived (english
\* list, then sanskrit, then glossary)
C5_SortedStable ==
    RerankDone =>
        \A i, j \in 1..Len(ret.value) :
            i < j =>
                /\ ret.value[i].score >= ret.value[j].score
                /\ ret.value[i].score = ret.value[j].score =>
                       FirstArrival(ret.value[i]) < FirstArrival(ret.value[j])

\* a tie that kept its arrival order behind an entry that arrived last and
\* was moved to the front
C5_Witness ==
    /\ RerankDone
    /\ Len(ret.value) = 3
    /\ ret.value[1].score > ret.value[2].score
    /\ ret.value[2].score = ret.value[3].score
    /\ FirstArrival(ret.value[1]) > FirstArrival(ret.value[3])

\* the ranked, truncated list before enrichment
Unenriched ==
    rerank_sloka_candidates(req.en, req.sa, req.gl, req.top_n, "none").value

\* the lookup for entry e fails: it raises or returns nothing
LookupFails(e) ==
    LET got == CallFetcher(req.fetcher, e.sloka_index, e.scripture_name)
    IN  got.raised \/ got.rows = <<>>

\* C6: a meaning lookup that raises or returns nothing for one entry does
\* not abort the batch: that entry is returned as it was, without the
\* enrichment fields, and every entry whose lookup succeeds is enriched
C6_EnrichmentFailureIsLocal ==
    (RerankDone /\ req.fetcher # "none") =>
        /\ ~ret.raised
        /\ Len(ret.value) = Len(Unenriched)
        /\ \A i \in 1..Len(ret.value) :
              IF LookupFails(Unenriched[i])
              THEN ret.value[i] = Unenriched[i] /\ ~ret.value[i].enriched
              ELSE /\ ret.value[i].enriched
                   /\ SamePair(ret.value[i], Unenriched[i])
                   /\ ret.value[i].english_meaning # ""

\* a batch in which the lookup raised for the first entry and a later entry
\* was still enriched
C6_Witness ==
    /\ RerankDone
    /\ req.fetcher = "raising"
    /\ Len(ret.value) >= 2
    /\ LookupFails(ret.value[1]) /\ ~ret.value[1].enriched
    /\ \E i \in 2..Len(ret.value) : ret.value[i].enriched

(***************************************************************************)
(* Properties of canonicalize_sloka_index.                                 *)
(***************************************************************************)
CanonDone == pc = "done" /\ req.op = "canonicalize_sloka_index"

\* the text of seg between its first and last non-space character
Core(seg) ==
    LET inked == {i \in 1..Len(seg) : seg[i] # " "}
    IN  IF inked = {} THEN <<>>
        ELSE SubSeq(seg, CHOOSE i \in inked : \A j \in inked : i <= j,
                         CHOOSE i \in inked : \A j \in inked : i >= j)

\* text that is all decimal digits, at least one
AllDigits(t) == t # <<>> /\ \A i \in 1..Len(t) : IsDigit(t[i])

\* seg is integer-valued: optional sign, then digits
IsIntegerText(seg) ==
    LET t == Core(seg)
    IN  \/ AllDigits(t)
        \/ t # <<>> /\ t[1] \in {"+", "-"} /\ AllDigits(Tail(t))

IntegerOf(seg) ==
    LET t == Core(seg)
    IN  IF t[1] = "-" THEN 0 - DecimalValue(Tail(t))
        ELSE IF t[1] = "+" THEN DecimalValue(Tail(t))
        ELSE DecimalValue(t)

\* the only dot of an index text that has exactly one
TheDot(idx) == CHOOSE i \in 1..Len(idx) : idx[i] = "."

ChapterText(idx) == SubSeq(idx, 1, TheDot(idx) - 1)

VerseText(idx) == SubSeq(idx, TheDot(idx) + 1, Len(idx))

\* idx is 'C.V': exactly two dot-separated segments, both integer-valued
IsChapterVerse(idx) ==
    /\ Count(idx, ".") = 1
    /\ IsIntegerText(ChapterText(idx))
    /\ IsIntegerText(VerseText(idx))

CasePairs ==
    { {"g", "G"}, {"i", "I"}, {"t", "T"}, {"a", "A"}, {"y", "Y"}, {"s", "S"},
      {"r", "R"}, {"n", "N"}, {"o", "O"} }

\* a and b are the same name up to letter case
SameIgnoringCase(a, b) ==
    /\ Len(a) = Len(b)
    /\ \A i \in 1..Len(a) : a[i] = b[i] \/ {a[i], b[i]} \in CasePairs

\* the catalog rows whose name is the requested name up to letter case
CatalogMatches ==
    {i \in 1..Len(list_all_scriptures) :
        /\ Truthy(list_all_scriptures[i].scripture_name)
        /\ SameIgnoringCase(list_all_scriptures[i].scripture_name.str,
                            req.scripture_name)}

\* a start index with at least two underscores
WellFormedStart(v) == Truthy(v) /\ Count(v.str, "_") >= 2

\* start without its last two underscore-delimited segments
AllButLastTwoSegments(start) ==
    LET cut == CHOOSE k \in 1..Len(start) :
                   start[k] = "_" /\ Count(SubSeq(start, k, Len(start)), "_") = 2
    IN  SubSeq(start, 1, cut - 1)

\* a natural number in decimal, zero-padded on the left to two digits at least
TwoDigits(n) == IF n < 10 THEN <<"0">> \o DecimalDigits(n) ELSE DecimalDigits(n)

\* an integer in decimal with at least two digits after its sign
TwoDigitsSigned(n) == IF n >= 0 THEN TwoDigits(n) ELSE <<"-">> \o TwoDigits(0 - n)

Gita == <<"g", "i", "t", "a">>

\* the documented examples: gita 2.47 and gita 12.5
ExamplesHold ==
    db.up =>
        /\ canonicalize_sloka_index(Gita, <<"2", ".", "4", "7">>).canonical_sloka_index
             = <<"K", "R", "I", "S", "H", "N", "A", "_", "B", "G", "_",
                 "0", "2", "_", "4", "7">>
        /\ canonicalize_sloka_index(Gita, <<"1", "2", ".", "5">>).canonical_sloka_index
             = <<"K", "R", "I", "S", "H", "N", "A", "_", "B", "G", "_",
                 "1", "2", "_", "0", "5">>

\* what C7 says of a call whose scripture is in the catalog with a
\* well-formed start index and whose index is 'C.V'
CanonicalAsClaimed ==
    \A i \in CatalogMatches :
        LET start == list_all_scriptures[i].start_sloka_index
            c == IntegerOf(ChapterText(req.sloka_index))
            v == IntegerOf(VerseText(req.sloka_index))
        IN  WellFormedStart(start) =>
                /\ ~ret.raised /\ ret.success
                /\ ret.canonical_sloka_index =
                       AllButLastTwoSegments(start.str) \o <<"_">>
                           \o TwoDigitsSigned(c) \o <<"_">> \o TwoDigitsSigned(v)

\* C7 as stated: for every scripture found in the catalog with a well-formed
\* start_sloka_index and every 'C.V' with integer C and V, the result is
\* prefix_C_V with C and V zero-padded to at least two digits
C7_CanonicalFormAnyInteger ==
    (CanonDone /\ IsChapterVerse(req.sloka_index)) => CanonicalAsClaimed

\* C7 amended: the same for every 'C.V' with non-negative integer C and V,
\* together with the two documented examples
C7_CanonicalForm ==
    /\ ExamplesHold
    /\ (/\ CanonDone
        /\ IsChapterVerse(req.sloka_index)
        /\ IntegerOf(ChapterText(req.sloka_index)) >= 0
        /\ IntegerOf(VerseText(req.sloka_index)) >= 0) => CanonicalAsClaimed

\* gita with a one-digit chapter and a two-digit verse
C7_Witness ==
    /\ CanonDone /\ ret.success
    /\ SameIgnoringCase(req.scripture_name, Gita)
    /\ IntegerOf(ChapterText(req.sloka_index)) = 9
    /\ IntegerOf(VerseText(req.sloka_index)) = 10

\* chapter and verse numbers the order is probed with
ProbeNumbers == {0, 1, 9, 10, 11, 19, 90, 99, 100, 101, 110}

\* (c1, v1) comes before (c2, v2)
PairLess(c1, v1, c2, v2) == c1 < c2 \/ (c1 = c2 /\ v1 < v2)

\* the index canonicalize_sloka_index gives (c, v) in the requested scripture
CanonicalOf(c, v) ==
    canonicalize_sloka_index(req.scripture_name,
        DecimalDigits(c) \o <<".">> \o DecimalDigits(v)).canonical_sloka_index

\* when the requested chapter and verse lie in 0..(limit - 1), the returned
\* index compares with the index of every probed pair below limit as the
\* pairs compare
OrderAgrees(limit) ==
    LET c == IntegerOf(ChapterText(req.sloka_index))
        v == IntegerOf(VerseText(req.sloka_index))
    IN  (c >= 0 /\ v >= 0 /\ c < limit /\ v < limit) =>
            \A c2, v2 \in {n \in ProbeNumbers : n < limit} :
                /\ PairLess(c, v, c2, v2)
                       <=> StrLess(ret.canonical_sloka_index, CanonicalOf(c2, v2))
                /\ PairLess(c2, v2, c, v)
                       <=> StrLess(CanonicalOf(c2, v2), ret.canonical_sloka_index)

\* C8: within one scripture the canonical indices are ordered as str exactly
\* as their (chapter, verse) pairs are ordered as numbers, for all chapter
\* and verse numbers canonicalize_sloka_index accepts (probed up to 999)
C8_LexOrderIsNumericOrder ==
    (CanonDone /\ ret.success) => OrderAgrees(1000)

\* the same for chapter and verse numbers from 0 to 99 only
LexOrderIsNumericOrderBelow100 ==
    (CanonDone /\ ret.success) => OrderAgrees(100)

\* C9: an index that is not exactly two integer-valued dot-separated
\* segments gets a failure value without canonical index, and no exception
C9_MalformedIndexFails ==
    (CanonDone /\ ~IsChapterVerse(req.sloka_index)) =>
        ~ret.raised /\ ~ret.success /\ ~ret.has_canonical

\* a known scripture asked with two dots, or with an empty verse segment
C9_Witness ==
    /\ CanonDone /\ db.up
    /\ req.scripture_name = Gita
    /\ \/ Count(req.sloka_index, ".") = 2
       \/ /\ Count(req.sloka_index, ".") = 1
          /\ VerseText(req.sloka_index) = <<>>
          /\ IsIntegerText(ChapterText(req.sloka_index))
    /\ ~ret.success /\ ~ret.has_canonical

\* the result without the echo of the requested name
Outcome(r) == [r EXCEPT !.scripture_name = <<>>]

\* C10: the scripture name is matched without regard to letter case (every
\* case variant of a catalog name gets what the catalog's own spelling
\* gets), and a name the catalog lacks gets a failure value, no exception
C10_CaseInsensitiveLookup ==
    CanonDone =>
        /\ ~ret.raised
        /\ CatalogMatches = {} => ~ret.success /\ ~ret.has_canonical
        /\ \A i \in CatalogMatches :
              Outcome(ret) =
                  Outcome(canonicalize_sloka_index(
                              list_all_scriptures[i].scripture_name.str,
                              req.sloka_index))

\* GITA resolves although the catalog spells it Gita
C10_Witness ==
    /\ CanonDone /\ ret.success
    /\ req.scripture_name = <<"G", "I", "T", "A">>
    /\ CatalogMatches # {}
    /\ \A i \in CatalogMatches :
          list_all_scriptures[i].scripture_name.str # req.scripture_name

(***************************************************************************)
(* Properties of the catalog entry's start index.                          *)
(***************************************************************************)
MalformedEntryError ==
    "Scripture metadata lacks canonical start index to infer prefix"

\* the number of underscore-delimited segments of an optional text
SegmentCount(v) == IF Truthy(v) THEN Count(v.str, "_") + 1 ELSE 0

\* text without its last two underscore-delimited segments
DropLastTwoSegments(text) ==
    IF Count(text, "_") >= 2 THEN AllButLastTwoSegments(text) ELSE <<>>

\* the result is a failure with the malformed-entry error when start has
\* fewer than least segments, and otherwise a success whose index is start
\* without its last two segments, followed by two more segments
StartDecides(start, least) ==
    IF SegmentCount(start) < least
    THEN ~ret.success /\ ~ret.has_canonical /\ ret.error = MalformedEntryError
    ELSE LET prefix == DropLastTwoSegments(start.str)
             n == Len(prefix) + 1
         IN  /\ ret.success
             /\ Len(ret.canonical_sloka_index) > n
             /\ SubSeq(ret.canonical_sloka_index, 1, n) = prefix \o <<"_">>
             /\ Count(ret.canonical_sloka_index, "_") = Count(prefix, "_") + 2

\* C11: with a well-formed index and a scripture of the catalog, the call
\* fails with the malformed-entry error when the entry's start_sloka_index
\* has fewer than two underscore-delimited segments, and otherwise the
\* prefix is start_sloka_index without its last two segments
C11_PrefixFromStartIndex ==
    (CanonDone /\ IsChapterVerse(req.sloka_index)) =>
        \A i \in CatalogMatches :
            StartDecides(list_all_scriptures[i].start_sloka_index, 2)

\* the start index the entry offers: start_sloka_index, or canonical_start
\* when that is absent
OfferedStart(row) ==
    IF Truthy(row.start_sloka_index) THEN row.start_sloka_index
    ELSE row.canonical_start

\* C11 amended: the same with the offered start index and fewer than three
\* segments (fewer than two underscores)
C11_PrefixFromOfferedStart ==
    (CanonDone /\ IsChapterVerse(req.sloka_index)) =>
        \A i \in CatalogMatches :
            StartDecides(OfferedStart(list_all_scriptures[i]), 3)

\* a well-formed index for the scripture whose start index is YS_01
C11_Witness ==
    /\ CanonDone /\ db.up
    /\ IsChapterVerse(req.sloka_index)
    /\ req.scripture_name = <<"y", "s">>
    /\ ret.error = MalformedEntryError

(***************************************************************************)
(* Properties of the get_sloka_meaning tool.                               *)
(***************************************************************************)
MeaningDone == pc = "done" /\ req.op = "get_sloka_meaning"

\* the catalog has a scripture of this name, up to letter case
NameInCatalog(name) ==
    \E i \in 1..Len(list_all_scriptures) :
        /\ Truthy(list_all_scriptures[i].scripture_name)
        /\ SameIgnoringCase(list_all_scriptures[i].scripture_name.str, name)

\* the request gives a scripture name and an index with a dot in it
ChapterVerseStyle ==
    Truthy(req.scripture_name) /\ Find(req.sloka_index, ".") # 0

\* the request has an input validation error: the index is not 'C.V' with
\* integers, or the catalog, which is reachable, lacks the scripture
InvalidInput(name) ==
    \/ ~IsChapterVerse(req.sloka_index)
    \/ db.up /\ ~NameInCatalog(name)

\* C12: a malformed 'chapter.verse' or an unknown scripture name comes back
\* as an explicit failure value, from canonicalize_sloka_index and from
\* get_sloka_meaning called with a 'chapter.verse' index and a scripture name
C12_ValidationErrorsAreExplicit ==
    /\ (CanonDone /\ InvalidInput(req.scripture_name)) =>
           ~ret.raised /\ ~ret.success /\ ~ret.has_canonical
    /\ (MeaningDone /\ ChapterVerseStyle /\ InvalidInput(req.scripture_name.str)) =>
           ~ret.raised /\ ret.kind = "failure"

\* what get_sloka_meaning does instead: the lookup runs with the index as
\* given, and its list of rows is the result
ValidationErrorsFallThrough ==
    (MeaningDone /\ ChapterVerseStyle /\ InvalidInput(req.scripture_name.str)) =>
        /\ ret.kind = "list"
        /\ ret.rows = get_sloka_meanings(PyStr(req.sloka_index),
                                         req.scripture_name).rows

(***************************************************************************)
(* The two forms of a verse reference.                                     *)
(***************************************************************************)
ContextDone == pc = "done" /\ req.op = "surrounding_context"

TraceDone == pc = "done" /\ req.op = "trace_immediate_context"

\* what canonicalize_sloka_index gives the request's index and scripture
Canonicalized ==
    canonicalize_sloka_index(req.scripture_name.str, req.sloka_index)

\* the request names a verse as 'C.V' of a scripture of the catalog
ValidChapterVerseRequest ==
    /\ ChapterVerseStyle
    /\ IsChapterVerse(req.sloka_index)
    /\ Canonicalized.success

\* get_sloka_meaning gives ('C.V', scripture) the rows it gives the
\* canonical index
MeaningFormsAgree ==
    (MeaningDone /\ ValidChapterVerseRequest) =>
        ret.rows = get_sloka_meaning(Canonicalized.canonical_sloka_index,
                                     req.scripture_name).rows

\* the same for the surrounding_context tool and the trace under it
ContextFormsAgree ==
    /\ (ContextDone /\ ValidChapterVerseRequest) =>
          LET other == immediate_surrounding_context(
                           Canonicalized.canonical_sloka_index,
                           req.scripture_name)
          IN  /\ ret.context_slokas_count = other.context_slokas_count
              /\ ret.surrounding_context = other.surrounding_context
    /\ (TraceDone /\ ValidChapterVerseRequest) =>
          ret.rows = trace_immediate_context(
                         PyStr(Canonicalized.canonical_sloka_index),
                         req.scripture_name).rows

\* C13: get_sloka_meaning and surrounding_context give ('C.V', scripture)
\* what they give the canonical index of that verse
C13_BothIndexFormsAgree == MeaningFormsAgree /\ ContextFormsAgree

\* get_sloka_meaning finds the verse 1.10 of the gita from 'C.V'
MeaningFormsWitness ==
    /\ MeaningDone /\ ValidChapterVerseRequest
    /\ Len(ret.rows) = 1
    /\ ret.rows[1].sloka_index = StoredIndex(KRISHNA_BG, 1, 10)

(***************************************************************************)
(* Properties of the neighbor tools.                                       *)
(***************************************************************************)
BeforeDone == pc = "done" /\ req.op = "previous_sloka_details"

AfterDone == pc = "done" /\ req.op = "next_sloka_details"

\* rows are in strictly ascending order of sloka_index
AscendingByIndex(rows) ==
    \A i, j \in 1..Len(rows) :
        i < j => StrLess(rows[i].sloka_index, rows[j].sloka_index)

\* rows are in strictly descending order of sloka_index
DescendingByIndex(rows) ==
    \A i, j \in 1..Len(rows) :
        i < j => StrLess(rows[j].sloka_index, rows[i].sloka_index)

\* C14: the list of next_sloka_details and the list of
\* previous_sloka_details are each in ascending order of sloka_index
C14_NeighborsAscending ==
    (BeforeDone \/ AfterDone) => AscendingByIndex(ret.rows)

\* what the code does: 'after' ascending, 'before' nearest first
NeighborsNearestFirst ==
    /\ AfterDone => AscendingByIndex(ret.rows)
    /\ BeforeDone => DescendingByIndex(ret.rows)

\* the store holds the verse the request names
VerseStored ==
    /\ ~req.sloka_index.none
    /\ \E k \in 1..Len(db.sloka_meaning) :
          db.sloka_meaning[k].sloka_index = req.sloka_index.str

GivenVerse ==
    db.sloka_meaning[CHOOSE k \in 1..Len(db.sloka_meaning) :
                        db.sloka_meaning[k].sloka_index = req.sloka_index.str]

\* r is of the scripture the request is about: the one it names, or the
\* given verse's own when it names none
OfTheScripture(r) ==
    IF Truthy(req.scripture_name)
    THEN SameIgnoringCase(r.scripture_name, req.scripture_name.str)
    ELSE SameIgnoringCase(r.scripture_name, GivenVerse.scripture_name)

\* r lies on the asked side of the given index
OnTheSide(r) ==
    IF req.op = "previous_sloka_details"
    THEN StrLess(r.sloka_index, req.sloka_index.str)
    ELSE StrLess(req.sloka_index.str, r.sloka_index)

\* a is nearer to the given index than b, both on the asked side
Nearer(a, b) ==
    IF req.op = "previous_sloka_details"
    THEN StrLess(b.sloka_index, a.sloka_index)
    ELSE StrLess(a.sloka_index, b.sloka_index)

\* the stored verses of the scripture on the asked side
SideVerses ==
    {k \in 1..Len(db.sloka_meaning) :
        OfTheScripture(db.sloka_meaning[k]) /\ OnTheSide(db.sloka_meaning[k])}

Returned(k) ==
    \E i \in 1..Len(ret.rows) :
        ret.rows[i].sloka_index = db.sloka_meaning[k].sloka_index

\* the result is what a neighbor query promises
NeighborsAsPromised ==
    /\ Len(ret.rows) <= req.count
    /\ \A i \in 1..Len(ret.rows) :
          OfTheScripture(ret.rows[i]) /\ OnTheSide(ret.rows[i])
    /\ db.up =>
          /\ Len(ret.rows) = Min(req.count, Cardinality(SideVerses))
          /\ \A k \in SideVerses :
                Returned(k) \/ \A i \in 1..Len(ret.rows) :
                                   Nearer(ret.rows[i], db.sloka_meaning[k])

\* a query with an index, a count of 0 or more, and either the name of the
\* given verse's scripture or no name and a stored verse
NeighborQuery ==
    /\ ~req.sloka_index.none
    /\ req.count >= 0
    /\ IF Truthy(req.scripture_name)
       THEN VerseStored =>
                SameIgnoringCase(GivenVerse.scripture_name, req.scripture_name.str)
       ELSE VerseStored

\* C15: a neighbor query never raises and returns at most count verses, all
\* of the given verse's scripture and strictly on the asked side, the count
\* nearest of them, fewer at a corpus boundary and none before the first
C15_NearestNeighborsOfScripture ==
    (BeforeDone \/ AfterDone) =>
        /\ ~ret.raised
        /\ NeighborQuery => NeighborsAsPromised

\* the same when the request names the scripture
NeighborsWithinNamedScripture ==
    (BeforeDone \/ AfterDone) =>
        /\ ~ret.raised
        /\ (NeighborQuery /\ Truthy(req.scripture_name)) => NeighborsAsPromised

\* the neighbors the traced window is built from: the five before, put in
\* ascending order, and the five after
TraceBefore ==
    Reverse(get_slokas_before_current_sloka(
                PyStr(req.sloka_index), req.scripture_name,
                DEFAULT_NUMBER_BEFORE).rows)

TraceAfter ==
    get_slokas_after_current_sloka(
        PyStr(req.sloka_index), req.scripture_name, DEFAULT_NUMBER_AFTER).rows

\* the store can be read and holds the requested verse, in the named
\* scripture when one is named
VerseResolvable ==
    /\ db.up
    /\ \E k \in 1..Len(db.sloka_meaning) :
          /\ db.sloka_meaning[k].sloka_index = req.sloka_index
          /\ Truthy(req.scripture_name) =>
                SameIgnoringCase(db.sloka_meaning[k].scripture_name,
                                 req.scripture_name.str)

\* the window is before, then the requested verse when it resolves, then after
WindowLayout ==
    /\ ~ret.raised
    /\ AscendingByIndex(TraceBefore)
    /\ AscendingByIndex(TraceAfter)
    /\ IF VerseResolvable
       THEN /\ Len(ret.rows) = Len(TraceBefore) + 1 + Len(TraceAfter)
            /\ SubSeq(ret.rows, 1, Len(TraceBefore)) = TraceBefore
            /\ ret.rows[Len(TraceBefore) + 1].sloka_index = req.sloka_index
            /\ SubSeq(ret.rows, Len(TraceBefore) + 2, Len(ret.rows)) = TraceAfter
            /\ AscendingByIndex(ret.rows)
       ELSE ret.rows = TraceBefore \o TraceAfter

\* C16: trace_immediate_context returns the neighbors before in ascending
\* order, then the current verse, then the neighbors after in ascending
\* order; when the verse exists the element after the neighbors before has
\* the requested index and the whole list is strictly ascending; when the
\* verse cannot be resolved it is omitted and the neighbors are still returned
C16_WindowAroundCurrentVerse == TraceDone => WindowLayout

\* the same for a request whose index is not the empty text
WindowAroundNamedVerse ==
    (TraceDone /\ req.sloka_index # <<>>) => WindowLayout

ChapterDone == pc = "done" /\ req.op = "get_chapter_context"

\* the request names a scripture that has chapter-level summaries
HasChapterSummaries ==
    /\ ~req.scripture_name.none
    /\ Lower(req.scripture_name.str)
          \in {RamayanaName, MahabharataName, BhagavathamName}

\* the view that holds the summaries of the named scripture
SummaryView ==
    CASE Lower(req.scripture_name.str) = RamayanaName ->
             "mv_ramayana_sarga_embeddings_enriched"
      [] Lower(req.scripture_name.str) = MahabharataName ->
             "mv_mahabharata_sarga_embeddings_enriched"
      [] OTHER -> "mv_bhagavatham_glossary"

\* the stored summary rows of the scripture whose interval contains the index
ContainingSummaries ==
    SelectSeq(db.chapter_summaries,
        LAMBDA r : /\ r.view = SummaryView
                   /\ Between(req.sloka_index, r.start_sloka_index,
                              r.end_sloka_index))

\* C17: for ramayana, mahabharata and bhagavatham the chapter context of a
\* sloka_index is exactly the summary rows whose interval contains it, so it
\* is non-empty whenever the store holds such a row; for every other
\* scripture it is the empty list, and nothing is raised
C17_ChapterContextIsContainingRows ==
    ChapterDone =>
        /\ ~ret.raised
        /\ IF HasChapterSummaries
           THEN db.up =>
                  /\ Len(ret.rows) = Len(ContainingSummaries)
                  /\ \A i \in 1..Len(ret.rows) :
                        ret.rows[i].short_summary
                            = ContainingSummaries[i].short_summary
           ELSE ret.rows = <<>>

\* the chapter context is the empty list whatever is asked and stored
ChapterContextAlwaysEmpty ==
    ChapterDone => ~ret.raised /\ ret.rows = <<>>

\* the window the surrounding_context tool traces for the request
TracedWindow ==
    trace_immediate_context(PyStr(req.sloka_index), req.scripture_name).rows

SummarizerUnavailable == db.summarizer \in {"down", "empty"}

\* C18: the surrounding_context tool never fails hard: it returns a record
\* with a text surrounding_context and a context_slokas_count equal to the
\* number of verses of the traced window, 0 when there are none; when the
\* summarizer is unavailable the text is the templated description, a
\* function of the traced window alone
C18_SurroundingContextDegrades ==
    ContextDone =>
        /\ ~ret.raised
        /\ ret.surrounding_context.kind \in {"fixed", "template", "llm"}
        /\ ret.context_slokas_count = Len(TracedWindow)
        /\ (TracedWindow = <<>>) =>
              ret.surrounding_context
                  = [kind |-> "fixed", text |-> "No contextual slokas found."]
        /\ (SummarizerUnavailable /\ TracedWindow # <<>>) =>
              ret.surrounding_context = TemplatedSummary(TracedWindow[1])

\* the summarizer is unreachable and the window has verses
C18_Witness ==
    /\ ContextDone
    /\ db.summarizer = "down"
    /\ req.sloka_index # <<>>
    /\ ret.context_slokas_count > 1
    /\ ret.surrounding_context.kind = "template"

\* the summary step is about the requested verse: the main sloka of the
\* traced window, and the verse the templated text names
SummaryIsAboutRequestedVerse ==
    /\ TracedWindow # <<>>
    /\ main_sloka(TracedWindow).sloka_index = req.sloka_index
    /\ ret.surrounding_context.kind = "template" =>
          ret.surrounding_context.sloka_index = req.sloka_index

\* C28: in surrounding_context the verse the summary step treats as the
\* main sloka, in the summarizer request and in the templated fallback, is
\* the requested verse whenever that verse exists, however many preceding
\* verses the window contains
C28_MainSlokaIsRequestedVerse ==
    (ContextDone /\ VerseResolvable) => SummaryIsAboutRequestedVerse

\* the same when the window has no verse before the requested one
MainSlokaIsRequestedVerseAtStart ==
    (ContextDone /\ VerseResolvable /\ TraceBefore = <<>>)
        => SummaryIsAboutRequestedVerse

\* a resolvable verse that opens its window, described by the template
OpensItsWindow ==
    /\ ContextDone
    /\ VerseResolvable
    /\ TraceBefore = <<>>
    /\ ret.surrounding_context.kind = "template"

BhashyaDone == pc = "done" /\ req.op = "get_bhashya_references"

\* the references of the stored gita commentary rows on the index; a row
\* that carries no commentary index is no reference
GitaReferences(index) ==
    LET linked == SelectSeq(db.gita_bhashya,
                      LAMBDA r : r.gita_sloka_index = index
                                 /\ r.sloka_index # <<>>)
    IN  [i \in 1..Len(linked) |->
            [scripture_name |-> linked[i].scripture_name,
             sloka_index |-> linked[i].sloka_index]]

\* the references of the stored yogasutras commentary rows on the index
YogasutrasReferences(index) ==
    {[scripture_name |-> db.yogasutras_bhashyas[k].scripture_name,
      sloka_index |-> db.yogasutras_bhashyas[k].yogasutras_bhashya_sloka_index] :
        k \in {j \in 1..Len(db.yogasutras_bhashyas) :
                  db.yogasutras_bhashyas[j].sloka_index = index}}

CommentaryReadable == db.up /\ db.bhashya_up

\* C19: get_bhashya_references follows the policy of the scripture: for gita,
\* in any letter case, every commentary row linked to the base index; for
\* yogasutras at most one row; for any other scripture, or a missing index or
\* name, the empty list, without raising and without a query on the
\* commentary tables
C19_CommentaryPolicy ==
    BhashyaDone =>
        /\ ~ret.raised
        /\ IF ~Truthy(req.sloka_index) \/ ~Truthy(req.scripture_name)
           THEN ret.rows = <<>> /\ ret.queried = {}
           ELSE IF SameIgnoringCase(req.scripture_name.str, GitaName)
           THEN /\ ret.queried \subseteq {"gita_bhashya"}
                /\ CommentaryReadable =>
                      ret.rows = GitaReferences(req.sloka_index.str)
           ELSE IF SameIgnoringCase(req.scripture_name.str, YogasutrasName)
           THEN /\ ret.queried \subseteq {"yogasutras_bhashyas"}
                /\ Len(ret.rows) <= 1
                /\ \A i \in 1..Len(ret.rows) :
                      ret.rows[i] \in YogasutrasReferences(req.sloka_index.str)
                /\ (CommentaryReadable
                      /\ YogasutrasReferences(req.sloka_index.str) # {}) =>
                      Len(ret.rows) = 1
           ELSE ret.rows = <<>> /\ ret.queried = {}

\* a gita verse with two commentaries, asked for as 'GITA'
C19_Witness ==
    /\ BhashyaDone
    /\ req.scripture_name = PyStr(<<"G", "I", "T", "A">>)
    /\ Len(ret.rows) = 2

\* the index get_sloka_meaning looks up: the canonical one when the request
\* is 'chapter.verse' of a scripture and canonicalizes, else the one given
LookupIndex ==
    IF ChapterVerseStyle /\ Canonicalized.success
    THEN Canonicalized.canonical_sloka_index
    ELSE req.sloka_index

\* the verse rows the retrieval finds in the store
VersesFound ==
    PySliceTo(
        SelectSeq(db.sloka_meaning,
            LAMBDA r : /\ LookupIndex # <<>> => r.sloka_index = LookupIndex
                       /\ Truthy(req.scripture_name) =>
                              SameIgnoringCase(r.scripture_name,
                                               req.scripture_name.str)),
        MAX_RESULTS_LIMIT)

\* the commentary lookup for the request's own index and name gives the
\* empty list, and raises nothing, when the commentary tables cannot be read
LookupDegrades ==
    LET b == get_bhashya_references(PyStr(req.sloka_index), req.scripture_name)
    IN  ~b.raised /\ (~CommentaryReadable => b.rows = <<>>)

ChannelAnswered == pc \in {"again", "done"} /\ req.op \in ChannelTools

\* a chapter-level search tool has answered
SummaryAnswered == pc \in {"again", "done"} /\ req.op \in SummaryTools

\* the commentary references of a candidate
ReferencesOf(row) ==
    get_bhashya_references(PyStr(row.sloka_index),
                           PyStr(row.scripture_name)).rows

\* C21: every candidate a channel search tool returns carries its commentary
\* references, the result of get_bhashya_references for its sloka_index and
\* scripture_name
C21_CandidatesCarryReferences ==
    ChannelAnswered =>
        \A i \in 1..Len(ret.rows) :
            /\ "bhashya_sloka_indexes" \in DOMAIN ret.rows[i]
            /\ ret.rows[i].bhashya_sloka_indexes = ReferencesOf(ret.rows[i])

\* the pgutils search under the tool attaches the references, and the rows
\* the tool returns have the keys of normalize_sloka_search_results only
ReferencesAttachedThenDropped ==
    ChannelAnswered =>
        /\ \A tie \in TieOrders :
              LET raw == ChannelRaw(req.op, req.text, req.top_n,
                                    req.scripture_list, tie).rows
              IN  \A i \in 1..Len(raw) :
                      raw[i].bhashya_sloka_indexes = ReferencesOf(raw[i])
        /\ \A i \in 1..Len(ret.rows) :
              DOMAIN ret.rows[i] =
                  {"sloka_index", "scripture_name", "score", "context_text",
                   "result_type", "lookup_ready", "rank"}

\* the rows the tool of the request gives when asked for top_n rows
ToolRows(top_n, tie) ==
    IF req.op \in ChannelTools
    THEN ChannelTool(req.op, req.text, top_n, req.scripture_list, tie).rows
    ELSE IF req.op \in {"search_ramayana_sarga_summaries",
                        "search_mahabharata_adhyaya_summaries",
                        "search_bhagavatham_adhyaya_summaries"}
    THEN SummariesTool(req.op,
                       IF req.op = "search_ramayana_sarga_summaries"
                       THEN "sarga" ELSE "adhyaya",
                       req.text, top_n, tie).rows
    ELSE GlossaryTermsTool(req.op, req.text, top_n, tie).rows

\* C22: a channel search or chapter-level search returns at most
\* min(top_n, 50) entries, none for a size below 1; a top_n above 50 is
\* clamped, not rejected: it is answered as a request for 50
C22_TopNClampedToMaximum ==
    (ChannelAnswered \/ SummaryAnswered) =>
        /\ ~ret.raised
        /\ Len(ret.rows) <= Max(0, Min(req.top_n, MAX_RESULTS_LIMIT))
        /\ (req.top_n > MAX_RESULTS_LIMIT /\ ret.rows # <<>>) =>
              \E tie \in TieOrders :
                  ret.rows = ToolRows(MAX_RESULTS_LIMIT, tie)

\* more than 50 rows are asked of a view that has them, and 50 come back
C22_Witness ==
    /\ SummaryAnswered
    /\ req.top_n > MAX_RESULTS_LIMIT
    /\ Len(db.tables[ViewOf(req.op)]) > MAX_RESULTS_LIMIT
    /\ Len(ret.rows) = MAX_RESULTS_LIMIT

\* the names a scripture_list holds
Listed == {req.scripture_list.items[i] : i \in 1..Len(req.scripture_list.items)}

\* the scripture names the verse tables hold
EveryScripture == <<GitaName, <<"r", "a">>, YogasutrasName>>

\* the answer is the one a list of every stored scripture gets
NoListSpansAll ==
    \E tie \in TieOrders :
        ret.rows = ChannelTool(req.op, req.text, req.top_n,
                               PyList(EveryScripture), tie).rows

\* C23: when a channel search is given a scripture_list, every returned
\* candidate has a scripture_name equal, letter case included, to one of the
\* listed names; without a list candidates of every scripture are eligible
C23_ListedScripturesOnly ==
    ChannelAnswered =>
        IF req.scripture_list.none
        THEN NoListSpansAll
        ELSE \A i \in 1..Len(ret.rows) : ret.rows[i].scripture_name \in Listed

\* the same for no list and for a list that names at least one scripture
NonEmptyListRestricts ==
    (ChannelAnswered /\ req.scripture_list # PyList(<<>>)) =>
        IF req.scripture_list.none
        THEN NoListSpansAll
        ELSE \A i \in 1..Len(ret.rows) : ret.rows[i].scripture_name \in Listed

\* the empty list is answered as no list is
EmptyListIsNoList ==
    (ChannelAnswered /\ req.scripture_list = PyList(<<>>)) =>
        \E tie \in TieOrders :
            ret.rows = ChannelTool(req.op, req.text, req.top_n, NoList, tie).rows

\* rows are in non-increasing order of score
NonIncreasingScores(rows) ==
    \A i, j \in 1..Len(rows) : i < j => rows[i].score >= rows[j].score

\* the table a channel tool searches
TableOf(op) ==
    CASE op = "search_slokas_index_list_sanskrit_top_n" ->
             "sloka_meaning_sa_embeddings"
      [] op = "search_slokas_index_list_english_top_n" ->
             "sloka_meaning_en_embeddings"
      [] op = "search_slokas_index_list_glossary_top_n" ->
             "sloka_meaning_glossary_embeddings"

\* no two rows of the searched table have the same embedding, hence none
\* the same score
NoEqualScores ==
    LET rows == db.tables[TableOf(req.op)]
    IN  \A i, j \in 1..Len(rows) :
            i # j => rows[i].embedding # rows[j].embedding

\* C24: the list a channel search tool returns is in non-increasing order of
\* score, also after rows without sloka_index are dropped and the rows are
\* normalized, and the same query on the same corpus returns the same list
C24_ScoreOrderedAndRepeatable ==
    ChannelAnswered =>
        /\ NonIncreasingScores(ret.rows)
        /\ ret.calls = 2 => ret.rows = ret.earlier

\* the order always holds, and the list repeats when no scores are equal
ScoreOrderedAndRepeatableWithoutTies ==
    ChannelAnswered =>
        /\ NonIncreasingScores(ret.rows)
        /\ (ret.calls = 2 /\ NoEqualScores) => ret.rows = ret.earlier

\* the text of the request cannot be embedded
CannotEmbed == IsBlank(req.text) \/ db.embedder = "down"

\* C25: when the query text cannot be embedded, because it is empty or
\* whitespace only or because the provider fails, every channel search and
\* every chapter-level search returns the empty list and raises nothing
C25_NoEmbeddingNoResult ==
    ((ChannelAnswered \/ SummaryAnswered) /\ CannotEmbed) =>
        ~ret.raised /\ ret.rows = <<>>

\* the store is up and has rows, the size asked is positive, and the text is
\* whitespace
C25_Witness ==
    /\ ChannelAnswered
    /\ db.up /\ db.embedder = "up"
    /\ req.text = <<" ">>
    /\ req.top_n > 0
    /\ req.scripture_list.none
    /\ ret.rows = <<>>


(***************************************************************************)
(* Properties of the connection pool.                                      *)
(***************************************************************************)
PoolRun == pc = "threads"

ActiveCallers == {c \in Callers : req.accesses[c] > 0}

AllFinished == \A c \in Callers : ret[c].at = "done"

\* the caller is inside the body of "with get_connection()"
InsideWith(c) == ret[c].at \in {"execute", "rollback", "finally"}

CheckedOut == {p \in PoolIds : db.out[p] > 0}

ConnectionDiscipline ==
    /\ \A c \in Callers : Len(ret[c].held) <= 1
    /\ \A c \in Callers : ~InsideWith(c) => ret[c].held = <<>>
    /\ AllFinished => CheckedOut = {}
    /\ (Cardinality(ActiveCallers) = 1 /\ db.maxconn = 1)
          => \A c \in Callers : "exhausted" \notin ret[c].errors

\* C26: every data-store access takes one connection from the pool and has
\* returned it by the time the access returns, on the normal path, after a
\* query error and after a rollback error; an operation never holds more
\* than one connection, so a lone operation is never refused by a pool of
\* size 1; once every operation has finished no connection is checked out.
C26_ConnectionReturnedOnEveryExit ==
    PoolRun => ConnectionDiscipline

\* the same discipline as long as a single pool was ever constructed: it is
\* kept on every exit path, the rollback error included
ReturnedOnEveryExitWithOnePool ==
    (PoolRun /\ db.made <= 1) => ConnectionDiscipline

RollbackErrorReturned ==
    \E c \in Callers :
        /\ PoolRun
        /\ db.made = 1
        /\ "rollback" \in ret[c].errors
        /\ ret[c].at = "done"
        /\ AllFinished
        /\ CheckedOut = {}

\* what execute_query gives a caller that runs alone on this store
AloneResult == IF db.reachable /\ db.query_ok THEN "rows" ELSE "raised"

SafeCalls ==
    /\ db.made <= 1
    /\ \A c \in Callers : "unkeyed" \notin ret[c].errors
    /\ AllFinished => \A c \in Callers : ret[c].held = <<>>
    /\ \A c \in Callers : \A i \in 1..Len(ret[c].results) :
          ret[c].results[i] = AloneResult

\* C27: under every interleaving of concurrent callers, the first accesses
\* on an uninitialized pool included, exactly one pool is created, every
\* connection goes back to the pool it was taken from, and every caller
\* gets the result it would get alone (the pool being large enough for the
\* callers).
C27_ConcurrentCallsAreSafe ==
    (PoolRun /\ db.maxconn >= Cardinality(ActiveCallers)) => SafeCalls

\* callers that have passed the test of line 62 with no pool in place
Initializers == {c \in Callers : ret[c].at = "construct" \/ ret[c].fresh # 0}

\* the calls are safe as long as at most one caller found the pool missing
\* inside initialize_connection_pool
SafeWhenOneCallerInitializes ==
    (PoolRun /\ db.maxconn >= Cardinality(ActiveCallers)
             /\ Cardinality(Initializers) <= 1) => SafeCalls


(***************************************************************************)
(* Properties of the chat relay.                                           *)
(***************************************************************************)
ChatRun == req.op = "websocket_endpoint"

\* what follows "Bearer " in the Authorization header
PresentedToken ==
    SubSeq(req.authorization, Len(Bearer) + 1, Len(req.authorization))

ValidBearer ==
    /\ StartsWith(req.authorization, Bearer)
    /\ PresentedToken \in ValidTokens

\* the frames sent since the last message was read: the status frame and
\* then one message or error frame
Replied ==
    /\ Len(ret.frames) = 2
    /\ ret.frames[1] = StatusFrame
    /\ ret.frames[2].type \in {"message", "error"}

RelaySafety ==
    /\ ~ValidBearer => /\ ~ret.accepted
                       /\ pc = "ended" => ret.close_code = 1008
    /\ ret.frames # <<>> => ret.accepted
    /\ ret.frames = <<>> \/ ret.frames = <<StatusFrame>> \/ Replied
    /\ (pc = "listen" /\ ret.reads > 0) => Replied

\* C29: a connection without a valid Bearer token is closed with code 1008
\* and never accepted; on an accepted connection every text message read
\* from the client is answered by the status frame 'working' and then
\* exactly one frame of type 'message' or 'error', and the next message is
\* read only after that.
C29_RelayAnswersEveryMessage ==
    /\ [](ChatRun => RelaySafety)
    /\ \A n \in 1..MaxMessages :
          (ChatRun /\ ret.reads = n) ~> (ret.reads = n /\ Replied)

\* the order of the frames and the refusal of bad tokens, for headers that
\* name the scheme once
RelaySafeForPlainHeaders ==
    (ChatRun /\ ~StartsWith(PresentedToken, Bearer)) => RelaySafety

\* every message read is answered unless the relay's handler ends on an
\* exception
AnsweredUnlessRelayFails ==
    \A n \in 1..MaxMessages :
        (ChatRun /\ ret.reads = n) ~> (ret.reads = n /\ (Replied \/ ret.raised))

\* two messages read and both answered
BothAnswered ==
    /\ ChatRun
    /\ ret.reads = 2
    /\ Replied
    /\ pc = "ended"


(***************************************************************************)
(* The enrichment step of rerank_sloka_candidates.                         *)
(***************************************************************************)
\* the ranked list cut to top_n, before any enrichment
TruncatedRanking ==
    Trimmed(SortByScoreDesc(<<>>,
                MergedEntries(ingest(ingest(ingest(<<>>, req.en, "english"),
                                            req.sa, "sanskrit"),
                                     req.gl, "glossary"))),
            req.top_n)

\* what enrichment must leave alone
RankingFields(r) ==
    [sloka_index |-> r.sloka_index, scripture_name |-> r.scripture_name,
     score |-> r.score, frequency |-> r.frequency,
     contributing_agents |-> r.contributing_agents]

\* C30: the enrichment step of rerank_sloka_candidates changes nothing but
\* the enrichment fields: whatever the input and the meaning fetcher (one
\* that fails or finds nothing included), the returned list has the entries
\* of the truncated ranked list in the same order, each with the same
\* sloka_index, scripture_name, score, frequency and contributing_agents.
C30_EnrichmentKeepsRanking ==
    RerankDone =>
        /\ ~ret.raised
        /\ Len(ret.value) = Len(TruncatedRanking)
        /\ \A i \in 1..Len(ret.value) :
              RankingFields(ret.value[i]) = RankingFields(TruncatedRanking[i])

\* a fetcher that raised for one entry and found the verse of another
C30_Witness ==
    /\ RerankDone
    /\ req.fetcher = "raising"
    /\ \E i, j \in 1..Len(ret.value) :
          /\ ret.value[i].enriched
          /\ ~ret.value[j].enriched
          /\ CallFetcher(req.fetcher, ret.value[j].sloka_index,
                         ret.value[j].scripture_name).raised

====
